---- MODULE Spec2Model ----
(***************************************************************************)
(* Model of the drawing kernel of paradrawing (canvas.ts): the Drawing     *)
(* facade with its ToolState and DataState, the event -> action translator *)
(* generateAction, the two executors, the action history and the variable  *)
(* assembly of the constraint solver.                                      *)
(*                                                                         *)
(* One call of Drawing.sendEvent is modelled as a run of steps bound       *)
(* together by pc: SendEvent (generateAction), then one ExecTool step per  *)
(* tool action, then one ExecData step per data action, then Finish and    *)
(* Return.  No other operation can start while pc # "idle".                *)
(***************************************************************************)
EXTENDS Integers, Sequences, FiniteSets, TLC

(***************************************************************************)
(* Bounds of the model.                                                    *)
(***************************************************************************)
\* Largest object ID generateID may hand out.
MaxID == 8
\* Largest absolute value of a component of viewBox.offset a pan may leave.
MaxOffset == 20
\* Largest length of DataState.constraints.
MaxConstraints == 1

(***************************************************************************)
(* Input sets.                                                             *)
(***************************************************************************)
\* Viewport points carried by mouse events.
Points == {<<0, 0>>, <<20, 0>>, <<40, 0>>}
\* Offsets carried by SetViewOffset events.
ViewOffsets == {<<0, 0>>, <<20, 0>>}
\* Sizes carried by ResizeView events.
ViewSizes == {<<100, 80>>}
\* Scales carried by ScaleView events.
ViewScales == {2}
\* Keys carried by KeyDown / KeyUp events ("x" stands for any unbound key).
Keys == {"p", "s", "Enter", "x"}
\* Bodies carried by SetTextValue events.
Texts == {"a"}
\* Distances carried by AddDistanceConstraint events.
Distances == {40}
\* Values the Newton iteration may leave in a solver variable.
SolverVals == {20}
\* The listeners that may be registered.
Listeners == {"l1", "l2"}

Buttons == {"Primary", "Secondary", "Auxiliary"}

\* Stands for "undefined" where the code has an optional ObjectID.
NoID == 0
\* Stands for the value of x[col] where col is past the end of x (not a
\* number; no arithmetic is done on it).
Undef == -1000000007

(***************************************************************************)
(* Vectors and hit tests.                                                  *)
(***************************************************************************)
vecSub(a, b) == <<a[1] - b[1], a[2] - b[2]>>

vecDot(a, b) == a[1] * b[1] + a[2] * b[2]

hitNode(p, tol, mouse) ==
    LET r == vecSub(mouse, p)
        normSq == vecDot(r, r)
    IN  normSq < tol * tol

\* hitLineSegment with ">" in the two tests of the ends.
hitLineSegmentClosedEnds(a, b, tol, mouse) ==
    LET mouseFromA == vecSub(mouse, a)
        bFromA == vecSub(b, a)
        proj == vecDot(mouseFromA, bFromA)
        normSq == vecDot(bFromA, bFromA)
        tmp1 == proj - normSq
        mouseFromANormSq == vecDot(mouseFromA, mouseFromA)
    IN  IF normSq < 1 THEN FALSE
        ELSE IF proj <= 0 /\ proj * proj > tol * tol * normSq THEN FALSE
        ELSE IF tmp1 >= 0 /\ tmp1 * tmp1 > tol * tol * normSq THEN FALSE
        ELSE IF mouseFromANormSq * normSq - proj * proj > tol * tol * normSq THEN FALSE
        ELSE TRUE

\* The code compares proj * proj / normSq with tol * tol; normSq > 0 on these
\* paths, so the quotient is compared by cross-multiplication.  The guard
\* normSq < 1e-2 is normSq < 1 on integer coordinates.
hitLineSegment(a, b, tol, mouse) ==
    LET mouseFromA == vecSub(mouse, a)
        bFromA == vecSub(b, a)
        proj == vecDot(mouseFromA, bFromA)
        normSq == vecDot(bFromA, bFromA)
        tmp1 == proj - normSq
        mouseFromANormSq == vecDot(mouseFromA, mouseFromA)
    IN  IF normSq < 1 THEN FALSE
        ELSE IF proj <= 0 /\ proj * proj >= tol * tol * normSq THEN FALSE
        ELSE IF tmp1 >= 0 /\ tmp1 * tmp1 >= tol * tol * normSq THEN FALSE
        ELSE IF mouseFromANormSq * normSq - proj * proj > tol * tol * normSq THEN FALSE
        ELSE TRUE

(***************************************************************************)
(* Object maps.                                                            *)
(***************************************************************************)
EmptyMap == [i \in {} |-> 0]

\* Object.assign(a, b)
Merge(a, b) ==
    [i \in (DOMAIN a) \cup (DOMAIN b) |-> IF i \in DOMAIN b THEN b[i] ELSE a[i]]

SeqRange(s) == {s[i] : i \in DOMAIN s}

\* filterObjectMap without its delete loop.
filterObjectMapKeepAll(map, ids) == map

\* filterObjectMap without the points and lines of a Path in ids.
filterObjectMapIdsOnly(map, ids) ==
    [i \in (DOMAIN map) \cap SeqRange(ids) |-> map[i]]

filterObjectMap(map, ids) ==
    LET inc == SeqRange(ids) \cup
               UNION {IF ids[k] \in DOMAIN map /\ map[ids[k]].kind = "Path"
                      THEN SeqRange(map[ids[k]].points) \cup SeqRange(map[ids[k]].lines)
                      ELSE {} : k \in DOMAIN ids}
    IN  [i \in (DOMAIN map) \cap inc |-> map[i]]

(***************************************************************************)
(* Action history.                                                         *)
(* The tree is kept as a sequence of nodes; a node's children are indices  *)
(* into the sequence, and root and cur are indices (0 when absent).        *)
(***************************************************************************)
EmptyHistory == [nodes |-> <<>>, root |-> 0, cur |-> 0]

\* appendHistory that pushes the new child and leaves cur where it is.
appendHistoryStay(history, action) ==
    LET cur1 == IF history.cur = 0 THEN history.root ELSE history.cur
        n == Len(history.nodes) + 1
        newChild == [action |-> action, children |-> <<>>]
    IN  IF cur1 = 0
        THEN IF history.root = 0
             THEN [nodes |-> Append(history.nodes, newChild), root |-> n, cur |-> n]
             ELSE history
        ELSE [nodes |-> Append([history.nodes EXCEPT ![cur1].children = Append(@, n)],
                               newChild),
              root |-> history.root,
              cur |-> cur1]

appendHistory(history, action) ==
    LET cur1 == IF history.cur = 0 THEN history.root ELSE history.cur
        n == Len(history.nodes) + 1
        newChild == [action |-> action, children |-> <<>>]
    IN  IF cur1 = 0
        THEN IF history.root = 0
             THEN [nodes |-> Append(history.nodes, newChild), root |-> n, cur |-> n]
             ELSE history
        ELSE [nodes |-> Append([history.nodes EXCEPT ![cur1].children = Append(@, n)],
                               newChild),
              root |-> history.root,
              cur |-> n]

pointLikeObject(kind) == kind \in {"Node", "FixedNode"}

(***************************************************************************)
(* Coordinate transforms.                                                  *)
(***************************************************************************)
transformViewportToSVG(state, point) ==
    <<point[1] + state.viewBox.offset[1], point[2] + state.viewBox.offset[2]>>

transformSVGToData(state, point) ==
    <<point[1] - state.dataOrigin[1], state.dataOrigin[2] - point[2]>>

transformViewportToData(state, point) ==
    transformSVGToData(state, transformViewportToSVG(state, point))

(***************************************************************************)
(* Constraint solver: variable assembly, lookups, residuals.               *)
(* A variable table vt holds jacColByVar (the keys in column order: the    *)
(* column of a key is its position minus one), the vector x and the        *)
(* write-back closures (object, axis, index into x).                       *)
(***************************************************************************)
mapKey(objectID, index) == <<objectID, index>>

EmptyVars == [jacColByVar |-> <<>>, x |-> <<>>, writeResults |-> <<>>]

\* addVariable without its FixedNode case: a FixedNode is a variable like a
\* Node.
addVariableFixedToo(objects, vt, objectID, index) ==
    IF objectID \notin DOMAIN objects THEN vt
    ELSE IF mapKey(objectID, index) \in SeqRange(vt.jacColByVar) THEN vt
    ELSE LET vt1 == [vt EXCEPT !.jacColByVar = Append(@, mapKey(objectID, index))]
         IN  IF pointLikeObject(objects[objectID].kind)
             THEN [vt1 EXCEPT !.x = Append(@, objects[objectID].point[index + 1]),
                              !.writeResults = Append(@, [id |-> objectID,
                                                          index |-> index,
                                                          xi |-> Len(vt.x)])]
             ELSE vt1

addVariable(objects, vt, objectID, index) ==
    IF objectID \notin DOMAIN objects THEN vt
    ELSE IF objects[objectID].kind = "FixedNode" THEN vt
    ELSE IF mapKey(objectID, index) \in SeqRange(vt.jacColByVar) THEN vt
    ELSE LET vt1 == [vt EXCEPT !.jacColByVar = Append(@, mapKey(objectID, index))]
         IN  IF objects[objectID].kind = "Node"
             THEN [vt1 EXCEPT !.x = Append(@, objects[objectID].point[index + 1]),
                              !.writeResults = Append(@, [id |-> objectID,
                                                          index |-> index,
                                                          xi |-> Len(vt.x)])]
             ELSE vt1

\* The result of a lookup: err is "none" or the message of the Error thrown.
getVariable(objects, vt, x, objectID, index) ==
    IF objectID \notin DOMAIN objects
    THEN [err |-> "unknown object ID", col |-> -1, val |-> Undef]
    ELSE IF objects[objectID].kind = "FixedNode"
    THEN [err |-> "none", col |-> -1, val |-> objects[objectID].point[index + 1]]
    ELSE IF \E c \in DOMAIN vt.jacColByVar : vt.jacColByVar[c] = mapKey(objectID, index)
    THEN LET col == (CHOOSE c \in DOMAIN vt.jacColByVar :
                        vt.jacColByVar[c] = mapKey(objectID, index)) - 1
         IN  [err |-> "none", col |-> col,
              val |-> IF col + 1 \in DOMAIN x THEN x[col + 1] ELSE Undef]
    ELSE [err |-> "unknown variable", col |-> -1, val |-> Undef]

IsKind(objects, id, kind) == id \in DOMAIN objects /\ objects[id].kind = kind

IsPointLike(objects, id) == id \in DOMAIN objects /\ pointLikeObject(objects[id].kind)

\* The guard of each case of the constraint loop: FALSE where the code
\* says "continue" (or emits nothing).
recognised(objects, cons) ==
    CASE cons.kind = "Perpendicular" ->
            IsKind(objects, cons.line1, "Line") /\ IsKind(objects, cons.line2, "Line")
      [] cons.kind = "Distance" ->
            /\ cons.object1 \in DOMAIN objects
            /\ IF cons.object2 \in DOMAIN objects
               THEN IsPointLike(objects, cons.object1) /\ IsPointLike(objects, cons.object2)
               ELSE objects[cons.object1].kind = "Line"
      [] cons.kind \in {"Horizontal", "Vertical"} ->
            IsKind(objects, cons.object, "Line")
      [] cons.kind = "Coincident" ->
            /\ cons.object1 \in DOMAIN objects
            /\ cons.object2 \in DOMAIN objects
            /\ \/ IsPointLike(objects, cons.object1) /\ IsPointLike(objects, cons.object2)
               \/ IsKind(objects, cons.object1, "Line") /\ IsPointLike(objects, cons.object2)
               \/ IsPointLike(objects, cons.object1) /\ IsKind(objects, cons.object2, "Line")
      [] OTHER -> FALSE

\* The point IDs a recognised constraint works on, in the order of the code.
consPoints(objects, cons) ==
    CASE cons.kind = "Perpendicular" ->
            <<objects[cons.line1].point1, objects[cons.line1].point2,
              objects[cons.line2].point1, objects[cons.line2].point2>>
      [] cons.kind = "Distance" ->
            IF objects[cons.object1].kind = "Line"
            THEN <<objects[cons.object1].point1, objects[cons.object1].point2>>
            ELSE <<cons.object1, IF cons.object2 \in DOMAIN objects THEN cons.object2 ELSE -1>>
      [] cons.kind \in {"Horizontal", "Vertical"} ->
            <<objects[cons.object].point1, objects[cons.object].point2>>
      [] cons.kind = "Coincident" ->
            IF IsPointLike(objects, cons.object1) /\ IsPointLike(objects, cons.object2)
            THEN <<cons.object1, cons.object2>>
            ELSE IF objects[cons.object1].kind = "Line"
            THEN <<objects[cons.object1].point1, objects[cons.object1].point2, cons.object2>>
            ELSE <<objects[cons.object2].point1, objects[cons.object2].point2, cons.object1>>

BothAxes(ps) == [k \in 1..(2 * Len(ps)) |-> <<ps[(k + 1) \div 2], (k + 1) % 2>>]

OneAxis(ps, index) == [k \in 1..Len(ps) |-> <<ps[k], index>>]

\* Horizontal registering the x variables, as Vertical does.
addVariableCallsSameAxis(objects, cons) ==
    IF ~recognised(objects, cons) THEN <<>>
    ELSE CASE cons.kind \in {"Horizontal", "Vertical"} -> OneAxis(consPoints(objects, cons), 0)
           [] OTHER -> BothAxes(consPoints(objects, cons))

\* The (objectID, index) pairs one constraint passes to addVariable, in order.
addVariableCalls(objects, cons) ==
    IF ~recognised(objects, cons) THEN <<>>
    ELSE CASE cons.kind = "Horizontal" -> OneAxis(consPoints(objects, cons), 1)
           [] cons.kind = "Vertical" -> OneAxis(consPoints(objects, cons), 0)
           [] OTHER -> BothAxes(consPoints(objects, cons))

\* The (objectID, index) pairs the residual and Jacobian closures of one
\* constraint pass to getVariable.
getVariableCalls(objects, cons) ==
    IF ~recognised(objects, cons) THEN <<>>
    ELSE CASE cons.kind = "Horizontal" -> OneAxis(consPoints(objects, cons), 1)
           [] cons.kind = "Vertical" -> OneAxis(consPoints(objects, cons), 0)
           [] OTHER -> BothAxes(consPoints(objects, cons))

RECURSIVE FlatCalls(_, _, _)
\* The calls of all constraints, flattened in constraint order; which = "add"
\* for addVariable and "get" for getVariable.
FlatCalls(objects, constraints, which) ==
    IF constraints = <<>> THEN <<>>
    ELSE (IF which = "add" THEN addVariableCalls(objects, Head(constraints))
          ELSE getVariableCalls(objects, Head(constraints)))
         \o FlatCalls(objects, Tail(constraints), which)

RECURSIVE AddAll(_, _, _)
AddAll(objects, vt, calls) ==
    IF calls = <<>> THEN vt
    ELSE AddAll(objects, addVariable(objects, vt, Head(calls)[1], Head(calls)[2]), Tail(calls))

\* The variable table after the constraint loop.
assembleVariables(objects, constraints) ==
    AddAll(objects, EmptyVars, FlatCalls(objects, constraints, "add"))

\* The message of the first Error a lookup throws while the rows are
\* evaluated, "none" when every lookup succeeds.
solverError(objects, constraints, vt) ==
    LET calls == FlatCalls(objects, constraints, "get")
        bad == {k \in DOMAIN calls :
                   getVariable(objects, vt, vt.x, calls[k][1], calls[k][2]).err # "none"}
    IN  IF bad = {} THEN "none"
        ELSE LET k == CHOOSE k \in bad : \A j \in bad : k <= j
             IN  getVariable(objects, vt, vt.x, calls[k][1], calls[k][2]).err

\* The residuals one recognised constraint contributes at x (Undef for a
\* residual computed from an undefined number).
residuals(objects, vt, x, cons) ==
    LET ps == consPoints(objects, cons)
        V(k, index) == getVariable(objects, vt, x, ps[k], index).val
        Defined(n) == \A k \in 1..n : V(k, 0) # Undef /\ V(k, 1) # Undef
    IN  CASE cons.kind = "Perpendicular" ->
                IF ~Defined(4) THEN <<Undef>>
                ELSE <<(V(2, 0) - V(1, 0)) * (V(4, 0) - V(3, 0))
                       + (V(2, 1) - V(1, 1)) * (V(4, 1) - V(3, 1))>>
          [] cons.kind = "Distance" ->
                IF ~Defined(2) THEN <<Undef>>
                ELSE <<(V(2, 0) - V(1, 0)) * (V(2, 0) - V(1, 0))
                       + (V(2, 1) - V(1, 1)) * (V(2, 1) - V(1, 1))
                       - cons.distance * cons.distance>>
          [] cons.kind = "Horizontal" ->
                IF V(1, 1) = Undef \/ V(2, 1) = Undef THEN <<Undef>>
                ELSE <<V(1, 1) - V(2, 1)>>
          [] cons.kind = "Vertical" ->
                IF V(1, 0) = Undef \/ V(2, 0) = Undef THEN <<Undef>>
                ELSE <<V(1, 0) - V(2, 0)>>
          [] cons.kind = "Coincident" ->
                IF Len(ps) = 2
                THEN IF ~Defined(2) THEN <<Undef, Undef>>
                     ELSE <<V(1, 0) - V(2, 0), V(1, 1) - V(2, 1)>>
                ELSE IF ~Defined(3) THEN <<Undef>>
                     ELSE <<(V(2, 0) - V(1, 0)) * (V(3, 1) - V(1, 1))
                            - (V(2, 1) - V(1, 1)) * (V(3, 0) - V(1, 0))>>

RECURSIVE consFns(_, _, _, _)
\* The vector of residuals of the whole constraint list at x.
consFns(objects, constraints, vt, x) ==
    IF constraints = <<>> THEN <<>>
    ELSE (IF recognised(objects, Head(constraints))
          THEN residuals(objects, vt, x, Head(constraints))
          ELSE <<>>)
         \o consFns(objects, Tail(constraints), vt, x)

\* jacWrites with the sign of the second entry of the Horizontal row turned.
jacWritesSameSign(objects, vt, x, cons) ==
    LET ps == consPoints(objects, cons)
        C(k, index) == getVariable(objects, vt, x, ps[k], index).col
        V(k, index) == getVariable(objects, vt, x, ps[k], index).val
        D(a, b) == IF a = Undef \/ b = Undef THEN Undef ELSE a - b
        Twice(a) == IF a = Undef THEN Undef ELSE 2 * a
    IN  CASE cons.kind = "Perpendicular" ->
                << << <<C(1, 0), D(V(3, 0), V(4, 0))>>,
                      <<C(1, 1), D(V(3, 1), V(4, 1))>>,
                      <<C(2, 0), D(V(4, 0), V(3, 0))>>,
                      <<C(2, 1), D(V(4, 1), V(3, 1))>>,
                      <<C(3, 0), D(V(1, 0), V(2, 0))>>,
                      <<C(3, 1), D(V(1, 1), V(2, 1))>>,
                      <<C(4, 0), D(V(2, 0), V(1, 0))>>,
                      <<C(4, 1), D(V(2, 1), V(1, 1))>> >> >>
          [] cons.kind = "Distance" ->
                << << <<C(1, 0), Twice(D(V(1, 0), V(2, 0)))>>,
                      <<C(1, 1), Twice(D(V(1, 1), V(2, 1)))>>,
                      <<C(2, 0), Twice(D(V(2, 0), V(1, 0)))>>,
                      <<C(2, 1), Twice(D(V(2, 1), V(1, 1)))>> >> >>
          [] cons.kind = "Horizontal" ->
                << << <<C(1, 1), 1>>, <<C(2, 1), 1>> >> >>
          [] cons.kind = "Vertical" ->
                << << <<C(1, 0), 1>>, <<C(2, 0), -1>> >> >>
          [] cons.kind = "Coincident" ->
                IF Len(ps) = 2
                THEN << << <<C(1, 0), 1>>, <<C(1, 1), 0>>,
                           <<C(2, 0), -1>>, <<C(2, 1), 0>> >>,
                        << <<C(1, 0), 0>>, <<C(1, 1), 1>>,
                           <<C(2, 0), 0>>, <<C(2, 1), -1>> >> >>
                ELSE << << <<C(1, 0), D(V(1, 1), V(3, 1))>>,
                           <<C(1, 1), D(V(2, 1), V(1, 1))>>,
                           <<C(2, 0), D(V(3, 1), V(1, 1))>>,
                           <<C(2, 1), D(V(1, 0), V(3, 0))>>,
                           <<C(3, 0), D(V(1, 1), V(2, 1))>>,
                           <<C(3, 1), D(V(2, 0), V(1, 0))>> >> >>

\* jacWritesSameSign with the two closures of the point-point Coincident
\* merged into one.
jacWritesMerged(objects, vt, x, cons) ==
    LET rows == jacWritesSameSign(objects, vt, x, cons)
    IN  IF Len(rows) = 2 THEN <<rows[1] \o rows[2]>> ELSE rows

\* The setGrad calls of the Jacobian-row closures one recognised constraint
\* pushes onto jacFns: one sequence per closure, each call as <<col, val>>
\* in the order of the code (a value computed from an undefined number is
\* Undef).
jacWrites(objects, vt, x, cons) ==
    LET ps == consPoints(objects, cons)
        C(k, index) == getVariable(objects, vt, x, ps[k], index).col
        V(k, index) == getVariable(objects, vt, x, ps[k], index).val
        D(a, b) == IF a = Undef \/ b = Undef THEN Undef ELSE a - b
        Twice(a) == IF a = Undef THEN Undef ELSE 2 * a
    IN  CASE cons.kind = "Perpendicular" ->
                << << <<C(1, 0), D(V(3, 0), V(4, 0))>>,
                      <<C(1, 1), D(V(3, 1), V(4, 1))>>,
                      <<C(2, 0), D(V(4, 0), V(3, 0))>>,
                      <<C(2, 1), D(V(4, 1), V(3, 1))>>,
                      <<C(3, 0), D(V(1, 0), V(2, 0))>>,
                      <<C(3, 1), D(V(1, 1), V(2, 1))>>,
                      <<C(4, 0), D(V(2, 0), V(1, 0))>>,
                      <<C(4, 1), D(V(2, 1), V(1, 1))>> >> >>
          [] cons.kind = "Distance" ->
                << << <<C(1, 0), Twice(D(V(1, 0), V(2, 0)))>>,
                      <<C(1, 1), Twice(D(V(1, 1), V(2, 1)))>>,
                      <<C(2, 0), Twice(D(V(2, 0), V(1, 0)))>>,
                      <<C(2, 1), Twice(D(V(2, 1), V(1, 1)))>> >> >>
          [] cons.kind = "Horizontal" ->
                << << <<C(1, 1), 1>>, <<C(2, 1), -1>> >> >>
          [] cons.kind = "Vertical" ->
                << << <<C(1, 0), 1>>, <<C(2, 0), -1>> >> >>
          [] cons.kind = "Coincident" ->
                IF Len(ps) = 2
                THEN << << <<C(1, 0), 1>>, <<C(1, 1), 0>>,
                           <<C(2, 0), -1>>, <<C(2, 1), 0>> >>,
                        << <<C(1, 0), 0>>, <<C(1, 1), 1>>,
                           <<C(2, 0), 0>>, <<C(2, 1), -1>> >> >>
                ELSE << << <<C(1, 0), D(V(1, 1), V(3, 1))>>,
                           <<C(1, 1), D(V(2, 1), V(1, 1))>>,
                           <<C(2, 0), D(V(3, 1), V(1, 1))>>,
                           <<C(2, 1), D(V(1, 0), V(3, 0))>>,
                           <<C(3, 0), D(V(1, 1), V(2, 1))>>,
                           <<C(3, 1), D(V(2, 0), V(1, 0))>> >> >>

RECURSIVE jacFns(_, _, _, _)
\* The closures of jacFns of the whole constraint list, as their setGrad
\* calls at x.
jacFns(objects, constraints, vt, x) ==
    IF constraints = <<>> THEN <<>>
    ELSE (IF recognised(objects, Head(constraints))
          THEN jacWrites(objects, vt, x, Head(constraints))
          ELSE <<>>)
         \o jacFns(objects, Tail(constraints), vt, x)

\* setGrad: a call with column -1 is dropped, the last call on a column
\* stays.  The row of width n that a closure leaves in Jrow (filled with 0
\* before the closure runs).
evalJRow(writes, n) ==
    [c \in 1..n |->
        LET ks == {k \in DOMAIN writes : writes[k][1] = c - 1}
        IN  IF ks = {} THEN 0
            ELSE writes[CHOOSE k \in ks : \A j \in ks : j <= k][2]]

\* evalJ: the matrix J at x, row by row.
evalJ(objects, constraints, vt, x) ==
    LET fns == jacFns(objects, constraints, vt, x)
    IN  [r \in DOMAIN fns |-> evalJRow(fns[r], Len(x))]

\* The number of times the loop of newtonSolve runs its body.
NewtonIterations == 100

RECURSIVE rowNormSq(_)
\* The squared norm of a row.
rowNormSq(row) ==
    IF row = <<>> THEN 0 ELSE Head(row) * Head(row) + rowNormSq(Tail(row))

\* The constraint list gives residuals linear in x with constant rows: every
\* recognised constraint is a Horizontal, a Vertical or a Coincident of two
\* points.
linearSystem(objects, constraints) ==
    \A k \in DOMAIN constraints :
       recognised(objects, constraints[k]) =>
           \/ constraints[k].kind \in {"Horizontal", "Vertical"}
           \/ /\ constraints[k].kind = "Coincident"
              /\ Len(consPoints(objects, constraints[k])) = 2

\* The systems whose solution is worked out below: every closure writes
\* within the row and every number is defined, no two rows are nonzero in
\* one column, and the step is a vector of integers.
svdExact(fns, J, F, n) ==
    /\ DOMAIN J = DOMAIN F
    /\ \A r \in DOMAIN fns : \A k \in DOMAIN fns[r] :
          fns[r][k][1] < n /\ fns[r][k][2] # Undef
    /\ \A r \in DOMAIN F : F[r] # Undef
    /\ \A r1, r2 \in DOMAIN J : \A c \in 1..n :
          (r1 # r2 /\ J[r1][c] # 0) => J[r2][c] = 0
    /\ \A r \in DOMAIN J : \A c \in 1..n :
          J[r][c] # 0 => (J[r][c] * F[r]) % rowNormSq(J[r]) = 0

\* "new SingularValueDecomposition(J, { autoTranspose: true }).solve(F)",
\* the minimum-norm least-squares solution of J sol = F, for a J of
\* svdExact: rows that share no column are orthogonal, so each nonzero row
\* a with right-hand side f adds a * f / (a . a), and a zero row adds
\* nothing.
svdSolve(J, F, n) ==
    [c \in 1..n |->
        LET rs == {r \in DOMAIN J : J[r][c] # 0}
        IN  IF rs = {} THEN 0
            ELSE LET r == CHOOSE r \in rs : TRUE
                 IN  (J[r][c] * F[r]) \div rowNormSq(J[r])]

\* One run of the loop body from x, given that no lookup throws: the
\* possible contents of x after "x[r] += sol.get(r, 0)".  The decomposition
\* is done by ml-matrix, outside the repository: where every residual is
\* zero the step is zero and x stays; for a linear system of svdExact the
\* step is svdSolve(J, -F); otherwise each variable may be left at any value
\* of SolverVals.
newtonStep(objects, constraints, vt, x) ==
    LET F == consFns(objects, constraints, vt, x)
        fns == jacFns(objects, constraints, vt, x)
        J == evalJ(objects, constraints, vt, x)
        minusF == [r \in DOMAIN F |-> -F[r]]
    IN  IF \A r \in DOMAIN F : F[r] = 0
        THEN {x}
        ELSE IF linearSystem(objects, constraints) /\ svdExact(fns, J, F, Len(x))
        THEN {[c \in DOMAIN x |-> x[c] + svdSolve(J, minusF, Len(x))[c]]}
        ELSE [DOMAIN x -> SolverVals]

\* The loop body on every possible x, counted as one iteration (a body that
\* leaves the possible contents as they are passes them on).
newtonBody(objects, constraints, vt, r) ==
    LET next == UNION {newtonStep(objects, constraints, vt, x) : x \in r.xs}
    IN  [xs |-> IF next = r.xs THEN r.xs ELSE next,
         iterations |-> r.iterations + 1]

\* The loop body behind a test that leaves the loop once every residual is
\* zero.
newtonBodyEarlyExit(objects, constraints, vt, r) ==
    IF \A x \in r.xs : \A k \in DOMAIN consFns(objects, constraints, vt, x) :
           consFns(objects, constraints, vt, x)[k] = 0
    THEN r
    ELSE newtonBody(objects, constraints, vt, r)

RECURSIVE newtonLoopEarlyExit(_, _, _, _, _)
\* The loop over newtonBodyEarlyExit.
newtonLoopEarlyExit(objects, constraints, vt, r, n) ==
    CASE n = 0 -> r
      [] n = 1 -> newtonBodyEarlyExit(objects, constraints, vt, r)
      [] OTHER ->
            LET half == newtonLoopEarlyExit(objects, constraints, vt, r, n \div 2)
            IN  IF half = r
                THEN newtonLoopEarlyExit(objects, constraints, vt, r, n - n \div 2)
                ELSE newtonLoopEarlyExit(objects, constraints, vt, half, n - n \div 2)

RECURSIVE newtonLoop(_, _, _, _, _)
\* "for (let i = 0; i < 100; ++i) { body }" as n runs of the body from r,
\* where r holds the possible contents of x and the number of iterations
\* run so far.  n runs are n \div 2 runs followed by the rest; runs that
\* leave r as it is pass r on.
newtonLoop(objects, constraints, vt, r, n) ==
    CASE n = 0 -> r
      [] n = 1 -> newtonBody(objects, constraints, vt, r)
      [] OTHER ->
            LET half == newtonLoop(objects, constraints, vt, r, n \div 2)
            IN  IF half = r
                THEN newtonLoop(objects, constraints, vt, r, n - n \div 2)
                ELSE newtonLoop(objects, constraints, vt, half, n - n \div 2)

\* The possible contents of x after newtonSolve.  They are those after the
\* first run of the loop body: a later run leaves x where it is (the step of
\* a linear system ends on a root) or again anywhere in SolverVals
\* (newtonLoop computes the same set run by run).
newtonSolve(objects, constraints, vt) ==
    newtonStep(objects, constraints, vt, vt.x)

\* Write-back closures that store x[xi] in both coordinates of the Node.
writeResultsBothAxes(objects, vt, x) ==
    LET NewCoord(i) ==
            x[vt.writeResults[CHOOSE k \in DOMAIN vt.writeResults :
                  vt.writeResults[k].id = i].xi + 1]
        Written == {vt.writeResults[k].id : k \in DOMAIN vt.writeResults}
    IN  [i \in DOMAIN objects |->
            IF i \in Written
            THEN [objects[i] EXCEPT !.point = <<NewCoord(i), NewCoord(i)>>]
            ELSE objects[i]]

\* The write-back closures applied to x.
writeResults(objects, vt, x) ==
    LET NewCoord(i, index) ==
            IF \E k \in DOMAIN vt.writeResults :
                   vt.writeResults[k].id = i /\ vt.writeResults[k].index = index
            THEN x[vt.writeResults[CHOOSE k \in DOMAIN vt.writeResults :
                       vt.writeResults[k].id = i /\ vt.writeResults[k].index = index].xi + 1]
            ELSE objects[i].point[index + 1]
        Written == {vt.writeResults[k].id : k \in DOMAIN vt.writeResults}
    IN  [i \in DOMAIN objects |->
            IF i \in Written
            THEN [objects[i] EXCEPT !.point = <<NewCoord(i, 0), NewCoord(i, 1)>>]
            ELSE objects[i]]

\* The outcomes of transformConstraints: the object map after write-back,
\* or the untouched map and the Error that escapes.
transformConstraints(objects, constraints) ==
    LET vt == assembleVariables(objects, constraints)
        error == solverError(objects, constraints, vt)
    IN  IF error # "none"
        THEN {[objects |-> objects, error |-> error]}
        ELSE {[objects |-> writeResults(objects, vt, x), error |-> "none"] :
                 x \in newtonSolve(objects, constraints, vt)}

(***************************************************************************)
(* Data executor.                                                          *)
(***************************************************************************)
\* The outcomes of executeDataAction: the new DataState and the returned
\* flag, or (error # "none") the DataState left behind by the Error that
\* escapes from the solver.
\* AddConstraint assigning the list instead of pushing onto it.
executeDataActionAssign(state, action) ==
    IF action.kind = "AddObject"
    THEN {[dataState |-> [state EXCEPT !.objects = Merge(@, action.map)],
           changed |-> TRUE, error |-> "none"]}
    ELSE LET constraints1 == <<action.constraint>>
         IN  {[dataState |-> [objects |-> r.objects, constraints |-> constraints1],
               changed |-> TRUE, error |-> r.error] :
                 r \in transformConstraints(state.objects, constraints1)}

executeDataAction(state, action) ==
    IF action.kind = "AddObject"
    THEN {[dataState |-> [state EXCEPT !.objects = Merge(@, action.map)],
           changed |-> TRUE, error |-> "none"]}
    ELSE LET constraints1 == Append(state.constraints, action.constraint)
         IN  {[dataState |-> [objects |-> r.objects, constraints |-> constraints1],
               changed |-> TRUE, error |-> r.error] :
                 r \in transformConstraints(state.objects, constraints1)}

(***************************************************************************)
(* Tool executor.  id is the counter of generateID; the result carries the *)
(* new ToolState, the new counter and the returned flag.                   *)
(***************************************************************************)
ToolResult(toolState, id, changed) ==
    [toolState |-> toolState, id |-> id, changed |-> changed]

Last(s) == s[Len(s)]

\* AddNode with every new Line drawn from the first Node of the live
\* sub-path.
execAddNodeFan(toolState, id, action) ==
    LET tool == toolState.tool
    IN  IF tool.kind # "Pen" THEN ToolResult(toolState, id, FALSE)
        ELSE IF ~IsKind(tool.tempObjectMap, tool.tempObjectID, "Path")
        THEN ToolResult(toolState, id, FALSE)
        ELSE IF \/ ~IsKind(tool.tempObjectMap, tool.nextObjectID, "Path")
                \/ tool.tempObjectMap[tool.nextObjectID].points = <<>>
        THEN ToolResult(toolState, id, FALSE)
        ELSE LET map == tool.tempObjectMap
                 nextObj == map[tool.nextObjectID]
                 lastPointID == Last(nextObj.points)
                 tempObject1 ==
                     [map[tool.tempObjectID] EXCEPT
                        !.points = Append(@, lastPointID),
                        !.lines = IF nextObj.lines # <<>>
                                  THEN Append(@, Last(nextObj.lines)) ELSE @]
                 nextPoint == [id |-> id + 1, guide |-> FALSE, kind |-> "Node",
                               point |-> transformViewportToData(toolState,
                                                                 toolState.mousePoint)]
                 nextLine == [id |-> id + 2, guide |-> FALSE, kind |-> "Line",
                              point1 |-> Head(nextObj.points), point2 |-> nextPoint.id]
                 nextObj1 == [nextObj EXCEPT !.points = Append(@, nextPoint.id),
                                             !.lines = Append(@, nextLine.id)]
                 map1 == [i \in (DOMAIN map) \cup {nextPoint.id, nextLine.id} |->
                            CASE i = nextPoint.id -> nextPoint
                              [] i = nextLine.id -> nextLine
                              [] i = tool.nextObjectID -> nextObj1
                              [] i = tool.tempObjectID -> tempObject1
                              [] OTHER -> map[i]]
             IN  ToolResult([toolState EXCEPT !.tool.tempObjectMap = map1], id + 2, TRUE)

execAddNode(toolState, id, action) ==
    LET tool == toolState.tool
    IN  IF tool.kind # "Pen" THEN ToolResult(toolState, id, FALSE)
        ELSE IF ~IsKind(tool.tempObjectMap, tool.tempObjectID, "Path")
        THEN ToolResult(toolState, id, FALSE)
        ELSE IF \/ ~IsKind(tool.tempObjectMap, tool.nextObjectID, "Path")
                \/ tool.tempObjectMap[tool.nextObjectID].points = <<>>
        THEN ToolResult(toolState, id, FALSE)
        ELSE LET map == tool.tempObjectMap
                 nextObj == map[tool.nextObjectID]
                 lastPointID == Last(nextObj.points)
                 tempObject1 ==
                     [map[tool.tempObjectID] EXCEPT
                        !.points = Append(@, lastPointID),
                        !.lines = IF nextObj.lines # <<>>
                                  THEN Append(@, Last(nextObj.lines)) ELSE @]
                 nextPoint == [id |-> id + 1, guide |-> FALSE, kind |-> "Node",
                               point |-> transformViewportToData(toolState,
                                                                 toolState.mousePoint)]
                 nextLine == [id |-> id + 2, guide |-> FALSE, kind |-> "Line",
                              point1 |-> lastPointID, point2 |-> nextPoint.id]
                 nextObj1 == [nextObj EXCEPT !.points = Append(@, nextPoint.id),
                                             !.lines = Append(@, nextLine.id)]
                 map1 == [i \in (DOMAIN map) \cup {nextPoint.id, nextLine.id} |->
                            CASE i = nextPoint.id -> nextPoint
                              [] i = nextLine.id -> nextLine
                              [] i = tool.nextObjectID -> nextObj1
                              [] i = tool.tempObjectID -> tempObject1
                              [] OTHER -> map[i]]
             IN  ToolResult([toolState EXCEPT !.tool.tempObjectMap = map1], id + 2, TRUE)

\* UpdateNextNode moving the first Node of the live sub-path, not the last.
execUpdateNextNodeFirst(toolState, id, action) ==
    LET tool == toolState.tool
    IN  IF tool.kind # "Pen" THEN ToolResult(toolState, id, FALSE)
        ELSE IF ~IsKind(tool.tempObjectMap, tool.nextObjectID, "Path")
        THEN ToolResult(toolState, id, FALSE)
        ELSE IF tool.tempObjectMap[tool.nextObjectID].points = <<>>
        THEN ToolResult(toolState, id, FALSE)
        ELSE LET nextPointID == Head(tool.tempObjectMap[tool.nextObjectID].points)
             IN  IF IsKind(tool.tempObjectMap, nextPointID, "Node")
                 THEN ToolResult([toolState EXCEPT
                                    !.tool.tempObjectMap[nextPointID].point =
                                        transformViewportToData(toolState, action.point)],
                                 id, TRUE)
                 ELSE ToolResult(toolState, id, TRUE)

execUpdateNextNode(toolState, id, action) ==
    LET tool == toolState.tool
    IN  IF tool.kind # "Pen" THEN ToolResult(toolState, id, FALSE)
        ELSE IF ~IsKind(tool.tempObjectMap, tool.nextObjectID, "Path")
        THEN ToolResult(toolState, id, FALSE)
        ELSE IF tool.tempObjectMap[tool.nextObjectID].points = <<>>
        THEN ToolResult(toolState, id, FALSE)
        ELSE LET nextPointID == Last(tool.tempObjectMap[tool.nextObjectID].points)
             IN  IF IsKind(tool.tempObjectMap, nextPointID, "Node")
                 THEN ToolResult([toolState EXCEPT
                                    !.tool.tempObjectMap[nextPointID].point =
                                        transformViewportToData(toolState, action.point)],
                                 id, TRUE)
                 ELSE ToolResult(toolState, id, TRUE)

\* SelectTool without the test for the tool that is already active.
execSelectToolAgain(toolState, id, action) ==
         CASE action.tool = "Pen" ->
                LET path == [id |-> id + 1, guide |-> FALSE, kind |-> "Path",
                             points |-> <<>>, lines |-> <<>>]
                    nextNode == [id |-> id + 2, guide |-> FALSE, kind |-> "Node",
                                 point |-> transformViewportToData(toolState,
                                                                   toolState.mousePoint)]
                    nextPath == [id |-> id + 3, guide |-> FALSE, kind |-> "Path",
                                 points |-> <<nextNode.id>>, lines |-> <<>>]
                IN  ToolResult([toolState EXCEPT !.tool =
                                   [kind |-> "Pen",
                                    tempObjectMap |->
                                        [i \in {path.id, nextNode.id, nextPath.id} |->
                                            CASE i = path.id -> path
                                              [] i = nextNode.id -> nextNode
                                              [] OTHER -> nextPath],
                                    tempObjectID |-> path.id,
                                    nextObjectID |-> nextPath.id]],
                               id + 3, TRUE)
           [] action.tool = "Selector" ->
                ToolResult([toolState EXCEPT !.tool =
                               [kind |-> "Selector", selectedObjects |-> <<>>]],
                           id, TRUE)
           [] action.tool = "Text" ->
                LET nextNode == [id |-> id + 1, guide |-> FALSE, kind |-> "Node",
                                 point |-> transformViewportToData(toolState,
                                                                   toolState.mousePoint)]
                    nextText == [id |-> id + 2, guide |-> FALSE, kind |-> "Text",
                                 point |-> nextNode.id, text |-> ""]
                IN  ToolResult([toolState EXCEPT !.tool =
                                   [kind |-> "Text",
                                    tempObjectMap |->
                                        [i \in {nextNode.id, nextText.id} |->
                                            IF i = nextNode.id THEN nextNode ELSE nextText],
                                    nextObjectID |-> nextText.id]],
                               id + 2, TRUE)
           [] OTHER -> ToolResult(toolState, id, FALSE)

execSelectTool(toolState, id, action) ==
    IF toolState.tool.kind = action.tool THEN ToolResult(toolState, id, FALSE)
    ELSE CASE action.tool = "Pen" ->
                LET path == [id |-> id + 1, guide |-> FALSE, kind |-> "Path",
                             points |-> <<>>, lines |-> <<>>]
                    nextNode == [id |-> id + 2, guide |-> FALSE, kind |-> "Node",
                                 point |-> transformViewportToData(toolState,
                                                                   toolState.mousePoint)]
                    nextPath == [id |-> id + 3, guide |-> FALSE, kind |-> "Path",
                                 points |-> <<nextNode.id>>, lines |-> <<>>]
                IN  ToolResult([toolState EXCEPT !.tool =
                                   [kind |-> "Pen",
                                    tempObjectMap |->
                                        [i \in {path.id, nextNode.id, nextPath.id} |->
                                            CASE i = path.id -> path
                                              [] i = nextNode.id -> nextNode
                                              [] OTHER -> nextPath],
                                    tempObjectID |-> path.id,
                                    nextObjectID |-> nextPath.id]],
                               id + 3, TRUE)
           [] action.tool = "Selector" ->
                ToolResult([toolState EXCEPT !.tool =
                               [kind |-> "Selector", selectedObjects |-> <<>>]],
                           id, TRUE)
           [] action.tool = "Text" ->
                LET nextNode == [id |-> id + 1, guide |-> FALSE, kind |-> "Node",
                                 point |-> transformViewportToData(toolState,
                                                                   toolState.mousePoint)]
                    nextText == [id |-> id + 2, guide |-> FALSE, kind |-> "Text",
                                 point |-> nextNode.id, text |-> ""]
                IN  ToolResult([toolState EXCEPT !.tool =
                                   [kind |-> "Text",
                                    tempObjectMap |->
                                        [i \in {nextNode.id, nextText.id} |->
                                            IF i = nextNode.id THEN nextNode ELSE nextText],
                                    nextObjectID |-> nextText.id]],
                               id + 2, TRUE)
           [] OTHER -> ToolResult(toolState, id, FALSE)

\* UpdatePan with the subtraction the other way round.
execUpdatePanReversed(toolState, id, action) ==
    IF toolState.pan.kind = "Panning"
    THEN ToolResult([toolState EXCEPT !.viewBox.offset =
                        <<toolState.mousePoint[1] - toolState.pan.start[1],
                          toolState.mousePoint[2] - toolState.pan.start[2]>>],
                    id, TRUE)
    ELSE ToolResult(toolState, id, FALSE)

execUpdatePan(toolState, id, action) ==
    IF toolState.pan.kind = "Panning"
    THEN ToolResult([toolState EXCEPT !.viewBox.offset =
                        <<toolState.pan.start[1] - toolState.mousePoint[1],
                          toolState.pan.start[2] - toolState.mousePoint[2]>>],
                    id, TRUE)
    ELSE ToolResult(toolState, id, FALSE)

\* UpdateNextText moving the Node and leaving the body as it is.
execUpdateNextTextKeepBody(toolState, id, action) ==
    LET tool == toolState.tool
    IN  IF tool.kind # "Text" THEN ToolResult(toolState, id, FALSE)
        ELSE IF ~IsKind(tool.tempObjectMap, tool.nextObjectID, "Text")
        THEN ToolResult(toolState, id, FALSE)
        ELSE IF ~IsKind(tool.tempObjectMap, tool.tempObjectMap[tool.nextObjectID].point, "Node")
        THEN ToolResult(toolState, id, FALSE)
        ELSE LET pointID == tool.tempObjectMap[tool.nextObjectID].point
             IN  ToolResult([toolState EXCEPT
                                !.tool.tempObjectMap[pointID].point =
                                    transformViewportToData(toolState, action.point)],
                            id, TRUE)

execUpdateNextText(toolState, id, action) ==
    LET tool == toolState.tool
    IN  IF tool.kind # "Text" THEN ToolResult(toolState, id, FALSE)
        ELSE IF ~IsKind(tool.tempObjectMap, tool.nextObjectID, "Text")
        THEN ToolResult(toolState, id, FALSE)
        ELSE IF ~IsKind(tool.tempObjectMap, tool.tempObjectMap[tool.nextObjectID].point, "Node")
        THEN ToolResult(toolState, id, FALSE)
        ELSE LET textID == tool.nextObjectID
                 pointID == tool.tempObjectMap[textID].point
             IN  ToolResult([toolState EXCEPT
                                !.tool.tempObjectMap[textID].text = action.text,
                                !.tool.tempObjectMap[pointID].point =
                                    transformViewportToData(toolState, action.point)],
                            id, TRUE)

\* Set.add putting a new item first in the iteration order.
SetAddFirst(s, item) == IF item \in SeqRange(s) THEN s ELSE <<item>> \o s

\* The selection is a Set in insertion order: a sequence without repeats.
SetAdd(s, item) == IF item \in SeqRange(s) THEN s ELSE Append(s, item)

SetDelete(s, item) == SelectSeq(s, LAMBDA v : v # item)

\* SelectObject making the object the whole selection.
execSelectObjectOnly(toolState, id, action) ==
    IF toolState.tool.kind = "Selector"
    THEN ToolResult([toolState EXCEPT !.tool.selectedObjects = <<action.objectID>>],
                    id, TRUE)
    ELSE ToolResult(toolState, id, FALSE)

execSelectObject(toolState, id, action) ==
    IF toolState.tool.kind = "Selector"
    THEN ToolResult([toolState EXCEPT !.tool.selectedObjects = SetAdd(@, action.objectID)],
                    id, TRUE)
    ELSE ToolResult(toolState, id, FALSE)

\* DeselectObject without the has() test, after the pattern of SelectObject.
execDeselectObjectAlways(toolState, id, action) ==
    IF toolState.tool.kind = "Selector"
    THEN ToolResult([toolState EXCEPT !.tool.selectedObjects = SetDelete(@, action.objectID)],
                    id, TRUE)
    ELSE ToolResult(toolState, id, FALSE)

execDeselectObject(toolState, id, action) ==
    IF toolState.tool.kind = "Selector" /\ action.objectID \in SeqRange(toolState.tool.selectedObjects)
    THEN ToolResult([toolState EXCEPT !.tool.selectedObjects = SetDelete(@, action.objectID)],
                    id, TRUE)
    ELSE ToolResult(toolState, id, FALSE)

\* JSON.parse(JSON.stringify(action)): a copy that shares nothing with the
\* live objects.  An action is a value here, so the copy is the action as it
\* is when AddHistory runs.
execAddHistory(toolState, id, action) ==
    ToolResult([toolState EXCEPT !.history = appendHistory(@, action.action)], id, TRUE)

executeToolAction(toolState, id, action) ==
    CASE action.kind = "AddNode" -> execAddNode(toolState, id, action)
      [] action.kind = "UpdateNextNode" -> execUpdateNextNode(toolState, id, action)
      [] action.kind = "SelectTool" -> execSelectTool(toolState, id, action)
      [] action.kind = "ResizeView" ->
            ToolResult([toolState EXCEPT
                           !.viewBox.width = action.width \div toolState.scale,
                           !.viewBox.height = action.height \div toolState.scale],
                       id, TRUE)
      [] action.kind = "SetViewOffset" ->
            ToolResult([toolState EXCEPT !.viewBox.offset = action.offset], id, TRUE)
      [] action.kind = "StartPan" ->
            ToolResult([toolState EXCEPT !.pan =
                           [kind |-> "Panning",
                            start |-> transformViewportToSVG(toolState, action.point)]],
                       id, TRUE)
      [] action.kind = "StopPan" ->
            ToolResult([toolState EXCEPT !.pan = [kind |-> "Idle"]], id, TRUE)
      [] action.kind = "UpdatePan" -> execUpdatePan(toolState, id, action)
      [] action.kind = "UpdateNextText" -> execUpdateNextText(toolState, id, action)
      [] action.kind = "UpdateMousePoint" ->
            ToolResult([toolState EXCEPT !.mousePoint = action.point], id, TRUE)
      [] action.kind = "AddHistory" -> execAddHistory(toolState, id, action)
      [] action.kind = "SelectObject" -> execSelectObject(toolState, id, action)
      [] action.kind = "DeselectObject" -> execDeselectObject(toolState, id, action)

(***************************************************************************)
(* Event -> action translator.                                             *)
(***************************************************************************)
\* A hit test with a case for the Text, hit within 25 of the Node it is
\* anchored to.
hitObjectWithText(objects, obj, hitPoint) ==
    CASE obj.kind \in {"Node", "FixedNode"} -> hitNode(obj.point, 15, hitPoint)
      [] obj.kind = "Text" ->
            /\ IsKind(objects, obj.point, "Node")
            /\ hitNode(objects[obj.point].point, 25, hitPoint)
      [] OTHER -> FALSE

\* Does the Selector hit scan hit this object at data point hitPoint?
hitObject(objects, obj, hitPoint) ==
    CASE obj.kind \in {"Node", "FixedNode"} -> hitNode(obj.point, 15, hitPoint)
      [] obj.kind = "Line" ->
            /\ IsKind(objects, obj.point1, "Node")
            /\ IsKind(objects, obj.point2, "Node")
            /\ hitLineSegment(objects[obj.point1].point, objects[obj.point2].point,
                              10, hitPoint)
      [] OTHER -> FALSE

\* A scan that keeps the last hit instead of stopping at the first.
hitScanLast(toolState, dataState, point) ==
    LET hitPoint == transformViewportToData(toolState, point)
        hits == {i \in DOMAIN dataState.objects :
                    hitObject(dataState.objects, dataState.objects[i], hitPoint)}
    IN  IF hits = {} THEN NoID
        ELSE CHOOSE i \in hits : \A j \in hits : i >= j

\* hitObjID of the scan over Object.values(dataState.objects), which visits
\* integer keys in ascending order and stops at the first hit; NoID if none.
hitScan(toolState, dataState, point) ==
    LET hitPoint == transformViewportToData(toolState, point)
        hits == {i \in DOMAIN dataState.objects :
                    hitObject(dataState.objects, dataState.objects[i], hitPoint)}
    IN  IF hits = {} THEN NoID
        ELSE CHOOSE i \in hits : \A j \in hits : i <= j

ConstraintEventKinds ==
    {"AddPerpendicularConstraint", "AddCoincidentConstraint", "AddHorizontalConstraint",
     "AddVerticalConstraint", "AddDistanceConstraint"}

\* The cardinality tests with the one of Horizontal and Vertical taken from
\* Distance.
arityOKLoose(kind, size) ==
    CASE kind \in {"AddPerpendicularConstraint", "AddCoincidentConstraint"} -> size = 2
      [] OTHER -> size = 1 \/ size = 2

\* The cardinality test each constraint event makes on selectedObjects.size.
arityOK(kind, size) ==
    CASE kind \in {"AddPerpendicularConstraint", "AddCoincidentConstraint"} -> size = 2
      [] kind \in {"AddHorizontalConstraint", "AddVerticalConstraint"} -> size = 1
      [] kind = "AddDistanceConstraint" -> size = 1 \/ size = 2

\* The constraint a constraint event builds from Array.from(selectedObjects).
constraintOf(event, objectIDs) ==
    CASE event.kind = "AddPerpendicularConstraint" ->
            [kind |-> "Perpendicular", line1 |-> objectIDs[1], line2 |-> objectIDs[2]]
      [] event.kind = "AddCoincidentConstraint" ->
            [kind |-> "Coincident", object1 |-> objectIDs[1], object2 |-> objectIDs[2]]
      [] event.kind = "AddHorizontalConstraint" ->
            [kind |-> "Horizontal", object |-> objectIDs[1]]
      [] event.kind = "AddVerticalConstraint" ->
            [kind |-> "Vertical", object |-> objectIDs[1]]
      [] event.kind = "AddDistanceConstraint" ->
            [kind |-> "Distance", distance |-> event.distance,
             object1 |-> objectIDs[1],
             object2 |-> IF Len(objectIDs) >= 2 THEN objectIDs[2] ELSE NoID]

\* What generateAction hands back: the two lists (an AddHistory appended to
\* the tool actions for each data action), the counter of generateID, and
\* the ToolState as generateAction leaves it.
Generated(toolActions, dataActions, id, toolState) ==
    [toolActions |-> toolActions \o
                     [k \in DOMAIN dataActions |->
                         [kind |-> "AddHistory", action |-> dataActions[k]]],
     dataActions |-> dataActions,
     id |-> id,
     toolState |-> toolState]

genMouseMove(toolState, dataState, id, event) ==
    LET tool == toolState.tool
        a1 == <<[kind |-> "UpdateMousePoint", point |-> event.point]>>
        a2 == IF toolState.pan.kind = "Panning" THEN <<[kind |-> "UpdatePan"]>> ELSE <<>>
        a3 == CASE tool.kind = "Pen" ->
                     <<[kind |-> "UpdateNextNode", point |-> event.point]>>
                [] tool.kind = "Text" ->
                     IF IsKind(tool.tempObjectMap, tool.nextObjectID, "Text")
                     THEN <<[kind |-> "UpdateNextText",
                             text |-> tool.tempObjectMap[tool.nextObjectID].text,
                             point |-> event.point]>>
                     ELSE <<>>
                [] OTHER -> <<>>
    IN  Generated(a1 \o a2 \o a3, <<>>, id, toolState)

\* MouseDown whose secondary button starts a pan whatever the pan state is.
genMouseDownRestartPan(toolState, dataState, id, event) ==
    LET tool == toolState.tool
    IN  IF event.button = "Secondary"
        THEN Generated(<<[kind |-> "StartPan", point |-> event.point]>>, <<>>,
                       id, toolState)
        ELSE CASE tool.kind = "Selector" ->
                    LET hitObjID == hitScan(toolState, dataState, event.point)
                    IN  IF event.ctrl
                        THEN IF hitObjID # NoID
                             THEN Generated(<<[kind |-> "DeselectObject",
                                               objectID |-> hitObjID]>>,
                                            <<>>, id, toolState)
                             ELSE Generated(<<>>, <<>>, id, toolState)
                        ELSE IF hitObjID # NoID
                             THEN Generated(<<[kind |-> "SelectObject",
                                               objectID |-> hitObjID]>>,
                                            <<>>, id, toolState)
                             ELSE Generated([k \in DOMAIN tool.selectedObjects |->
                                                [kind |-> "DeselectObject",
                                                 objectID |-> tool.selectedObjects[k]]],
                                            <<>>, id, toolState)
               [] tool.kind = "Pen" ->
                    Generated(<<[kind |-> "AddNode", point |-> event.point]>>, <<>>,
                              id, toolState)
               [] tool.kind = "Text" ->
                    Generated(<<[kind |-> "SelectTool", tool |-> "Selector"]>>,
                              <<[id |-> id + 1, kind |-> "AddObject",
                                 map |-> tool.tempObjectMap]>>,
                              id + 1, toolState)

\* MouseDown whose Text case commits the scratch map and stays in the Text
\* tool.
genMouseDownStayInText(toolState, dataState, id, event) ==
    LET tool == toolState.tool
    IN  IF event.button = "Secondary"
        THEN IF toolState.pan.kind = "Idle"
             THEN Generated(<<[kind |-> "StartPan", point |-> event.point]>>, <<>>,
                            id, toolState)
             ELSE Generated(<<>>, <<>>, id, toolState)
        ELSE CASE tool.kind = "Selector" ->
                    LET hitObjID == hitScan(toolState, dataState, event.point)
                    IN  IF event.ctrl
                        THEN IF hitObjID # NoID
                             THEN Generated(<<[kind |-> "DeselectObject",
                                               objectID |-> hitObjID]>>,
                                            <<>>, id, toolState)
                             ELSE Generated(<<>>, <<>>, id, toolState)
                        ELSE IF hitObjID # NoID
                             THEN Generated(<<[kind |-> "SelectObject",
                                               objectID |-> hitObjID]>>,
                                            <<>>, id, toolState)
                             ELSE Generated([k \in DOMAIN tool.selectedObjects |->
                                                [kind |-> "DeselectObject",
                                                 objectID |-> tool.selectedObjects[k]]],
                                            <<>>, id, toolState)
               [] tool.kind = "Pen" ->
                    Generated(<<[kind |-> "AddNode", point |-> event.point]>>, <<>>,
                              id, toolState)
               [] tool.kind = "Text" ->
                    Generated(<<>>,
                              <<[id |-> id + 1, kind |-> "AddObject",
                                 map |-> tool.tempObjectMap]>>,
                              id + 1, toolState)

genMouseDown(toolState, dataState, id, event) ==
    LET tool == toolState.tool
    IN  IF event.button = "Secondary"
        THEN IF toolState.pan.kind = "Idle"
             THEN Generated(<<[kind |-> "StartPan", point |-> event.point]>>, <<>>,
                            id, toolState)
             ELSE Generated(<<>>, <<>>, id, toolState)
        ELSE CASE tool.kind = "Selector" ->
                    LET hitObjID == hitScan(toolState, dataState, event.point)
                    IN  IF event.ctrl
                        THEN IF hitObjID # NoID
                             THEN Generated(<<[kind |-> "DeselectObject",
                                               objectID |-> hitObjID]>>,
                                            <<>>, id, toolState)
                             ELSE Generated(<<>>, <<>>, id, toolState)
                        ELSE IF hitObjID # NoID
                             THEN Generated(<<[kind |-> "SelectObject",
                                               objectID |-> hitObjID]>>,
                                            <<>>, id, toolState)
                             ELSE Generated([k \in DOMAIN tool.selectedObjects |->
                                                [kind |-> "DeselectObject",
                                                 objectID |-> tool.selectedObjects[k]]],
                                            <<>>, id, toolState)
               [] tool.kind = "Pen" ->
                    Generated(<<[kind |-> "AddNode", point |-> event.point]>>, <<>>,
                              id, toolState)
               [] tool.kind = "Text" ->
                    Generated(<<[kind |-> "SelectTool", tool |-> "Selector"]>>,
                              <<[id |-> id + 1, kind |-> "AddObject",
                                 map |-> tool.tempObjectMap]>>,
                              id + 1, toolState)

genKeyDown(toolState, dataState, id, event) ==
    CASE event.key = "p" ->
            Generated(<<[kind |-> "SelectTool", tool |-> "Pen"]>>, <<>>, id, toolState)
      [] event.key = "s" ->
            Generated(<<[kind |-> "SelectTool", tool |-> "Selector"]>>, <<>>, id, toolState)
      [] event.key = "Enter" /\ toolState.tool.kind = "Pen" ->
            \* filterObjectMap prunes the Pen scratch map in place; the data
            \* action carries that same map.
            LET pruned == filterObjectMap(toolState.tool.tempObjectMap,
                                          <<toolState.tool.tempObjectID>>)
            IN  Generated(<<[kind |-> "SelectTool", tool |-> "Selector"]>>,
                          <<[id |-> id + 1, kind |-> "AddObject", map |-> pruned]>>,
                          id + 1,
                          [toolState EXCEPT !.tool.tempObjectMap = pruned])
      [] OTHER -> Generated(<<>>, <<>>, id, toolState)

genConstraint(toolState, dataState, id, event) ==
    IF /\ toolState.tool.kind = "Selector"
       /\ arityOK(event.kind, Len(toolState.tool.selectedObjects))
    THEN Generated(<<>>,
                   <<[id |-> id + 1, kind |-> "AddConstraint",
                      constraint |-> constraintOf(event, toolState.tool.selectedObjects)]>>,
                   id + 1, toolState)
    ELSE Generated(<<>>, <<>>, id, toolState)

\* { id: generateID(), guide: event.guide, ...event.object }
spreadObject(id, guide, object) ==
    [f \in {"id", "guide"} \cup DOMAIN object |->
        CASE f \in DOMAIN object -> object[f]
          [] f = "id" -> id
          [] OTHER -> guide]

genAddObject(toolState, dataState, id, event) ==
    LET obj == spreadObject(id + 1, event.guide, event.object)
        tmpMap == [i \in {obj.id} |-> obj]
    IN  Generated(<<>>, <<[id |-> id + 2, kind |-> "AddObject", map |-> tmpMap]>>,
                  id + 2, toolState)

generateAction(toolState, dataState, id, event) ==
    CASE event.kind = "MouseMove" -> genMouseMove(toolState, dataState, id, event)
      [] event.kind = "MouseDown" -> genMouseDown(toolState, dataState, id, event)
      [] event.kind = "MouseUp" ->
            IF event.button = "Secondary" /\ toolState.pan.kind = "Panning"
            THEN Generated(<<[kind |-> "StopPan"]>>, <<>>, id, toolState)
            ELSE Generated(<<>>, <<>>, id, toolState)
      [] event.kind = "KeyDown" -> genKeyDown(toolState, dataState, id, event)
      [] event.kind = "ResizeView" ->
            Generated(<<[kind |-> "ResizeView", width |-> event.viewWidth,
                         height |-> event.viewHeight]>>, <<>>, id, toolState)
      [] event.kind = "SetViewOffset" ->
            Generated(<<[kind |-> "SetViewOffset", offset |-> event.offset]>>, <<>>,
                      id, toolState)
      [] event.kind = "SelectTextTool" ->
            Generated(<<[kind |-> "SelectTool", tool |-> "Text"]>>, <<>>, id, toolState)
      [] event.kind = "SetTextValue" ->
            Generated(<<[kind |-> "UpdateNextText", text |-> event.text,
                         point |-> toolState.mousePoint]>>, <<>>, id, toolState)
      [] event.kind \in ConstraintEventKinds ->
            genConstraint(toolState, dataState, id, event)
      [] event.kind = "AddObject" -> genAddObject(toolState, dataState, id, event)
      [] OTHER -> Generated(<<>>, <<>>, id, toolState)

(***************************************************************************)
(* The Drawing facade.                                                     *)
(***************************************************************************)
VARIABLES
    toolState,    \* Drawing.toolState
    dataState,    \* Drawing.dataState
    id,           \* the counter inside generateID
    listeners,    \* Drawing.listeners
    pc,           \* where the running sendEvent is: "idle", "exec", "done"
    toolActions,  \* tool actions of the running sendEvent not yet executed
    dataActions,  \* data actions of the running sendEvent not yet executed
    changed,      \* the local flag of sendEvent
    trace,        \* the executor calls of the running sendEvent, in order,
                  \* and its call of notifyListeners
    calls,        \* how often the running sendEvent has called each listener
    threw,        \* some sendEvent ended in an Error
    penClicks,    \* primary MouseDown events sent since the Pen tool was
                  \* entered, -1 once any event other than MouseMove or a
                  \* primary MouseDown came in between (or the tool is not Pen)
    inEvent,      \* the argument of the running sendEvent
    pre,          \* ToolState, DataState and generateID counter as they were
                  \* when the running sendEvent (or the last failed Load) began
    press,        \* the point of the secondary MouseDown that began the pan in
                  \* progress and viewBox.offset as it was then
    load          \* the Load handler: "idle", about to send ResizeView
                  \* ("resize") or SetViewOffset ("offset"), or ended by an
                  \* exception with no operation since ("failed")

vars == <<toolState, dataState, id, listeners, pc, toolActions, dataActions,
          changed, trace, calls, threw, penClicks, inEvent, pre, press, load>>

initialToolState ==
    [tool |-> [kind |-> "Selector", selectedObjects |-> <<>>],
     history |-> EmptyHistory,
     mousePoint |-> <<0, 0>>,
     viewBox |-> [offset |-> <<0, 0>>, width |-> 0, height |-> 0],
     dataOrigin |-> <<0, 0>>,
     scale |-> 1,
     pan |-> [kind |-> "Idle"]]

initialDataState == [objects |-> EmptyMap, constraints |-> <<>>]

NoCalls == [l \in Listeners |-> 0]

\* No sendEvent is running.
NoEvent == [kind |-> "None"]

NoPre == [kind |-> "None"]

\* No pan is in progress.
NoPress == [kind |-> "None"]

Snapshot(toolState0, dataState0, id0) ==
    [toolState |-> toolState0, dataState |-> dataState0, id |-> id0]

Init ==
    /\ toolState = initialToolState
    /\ dataState = initialDataState
    /\ id = 0
    /\ listeners = {}
    /\ pc = "idle"
    /\ toolActions = <<>>
    /\ dataActions = <<>>
    /\ changed = FALSE
    /\ trace = <<>>
    /\ calls = NoCalls
    /\ threw = FALSE
    /\ penClicks = -1
    /\ inEvent = NoEvent
    /\ pre = NoPre
    /\ press = NoPress
    /\ load = "idle"

\* Objects an AddObject event may carry (CanvasObjectData).  The Line, the
\* Path and the Text refer to the IDs 1 and 3, which may or may not key an
\* object of the right kind when the event arrives.
EventObjects ==
    {[kind |-> "Node", point |-> <<0, 0>>],
     [kind |-> "Node", point |-> <<40, 0>>],
     [kind |-> "FixedNode", point |-> <<0, 0>>],
     [kind |-> "Line", point1 |-> 1, point2 |-> 3],
     [kind |-> "Path", points |-> <<1, 3>>, lines |-> <<>>],
     [kind |-> "Text", point |-> 1, text |-> "a"]}

Events ==
    [kind : {"MouseMove"}, point : Points]
    \cup [kind : {"MouseDown", "MouseUp"}, ctrl : BOOLEAN, button : Buttons, point : Points]
    \cup [kind : {"KeyDown", "KeyUp"}, key : Keys]
    \cup {[kind |-> "ResizeView", viewWidth |-> sz[1], viewHeight |-> sz[2]] : sz \in ViewSizes}
    \cup [kind : {"ScaleView"}, scale : ViewScales]
    \cup [kind : {"SetViewOffset"}, offset : ViewOffsets]
    \cup [kind : ConstraintEventKinds \ {"AddDistanceConstraint"}]
    \cup [kind : {"AddDistanceConstraint"}, distance : Distances]
    \cup [kind : {"SelectTextTool"}]
    \cup [kind : {"SetTextValue"}, text : Texts]
    \cup {[kind |-> "AddObject", guide |-> (o.kind = "FixedNode"), object |-> o] :
             o \in EventObjects}

\* IDs the tool executor will draw for these tool actions.
toolIDs(toolState0, actions) ==
    IF \E k \in DOMAIN actions : actions[k].kind = "AddNode" /\ toolState0.tool.kind = "Pen"
    THEN 2
    ELSE IF \E k \in DOMAIN actions :
               /\ actions[k].kind = "SelectTool"
               /\ actions[k].tool = "Pen"
               /\ toolState0.tool.kind # "Pen"
    THEN 3
    ELSE IF \E k \in DOMAIN actions :
               /\ actions[k].kind = "SelectTool"
               /\ actions[k].tool = "Text"
               /\ toolState0.tool.kind # "Text"
    THEN 2
    ELSE 0

Abs(n) == IF n < 0 THEN -n ELSE n

\* The bounds: the event does not take generateID past MaxID, the view
\* offset past MaxOffset or the constraint list past MaxConstraints.
WithinBounds(toolState0, dataState0, event, g) ==
    /\ g.id + toolIDs(toolState0, g.toolActions) <= MaxID
    /\ (\E k \in DOMAIN g.dataActions : g.dataActions[k].kind = "AddConstraint") =>
           Len(dataState0.constraints) < MaxConstraints
    /\ (event.kind = "MouseMove" /\ toolState0.pan.kind = "Panning") =>
           /\ Abs(toolState0.pan.start[1] - event.point[1]) <= MaxOffset
           /\ Abs(toolState0.pan.start[2] - event.point[2]) <= MaxOffset

nextPenClicks(toolState0, event, n) ==
    IF toolState0.tool.kind # "Pen" THEN -1
    ELSE CASE event.kind = "MouseMove" -> n
           [] event.kind = "MouseDown" /\ event.button = "Primary" ->
                 IF n >= 0 THEN n + 1 ELSE -1
           [] event.kind = "KeyDown" /\ event.key = "Enter" -> n
           [] OTHER -> -1

\* sendEvent, first statement: the call of generateAction.
sendEvent(event) ==
    /\ pc = "idle"
    /\ LET g == generateAction(toolState, dataState, id, event)
       IN  /\ WithinBounds(toolState, dataState, event, g)
           /\ toolState' = g.toolState
           /\ id' = g.id
           /\ toolActions' = g.toolActions
           /\ dataActions' = g.dataActions
    /\ pc' = "exec"
    /\ changed' = FALSE
    /\ trace' = <<>>
    /\ calls' = NoCalls
    /\ penClicks' = nextPenClicks(toolState, event, penClicks)
    /\ inEvent' = event
    /\ pre' = Snapshot(toolState, dataState, id)
    /\ UNCHANGED <<dataState, listeners, threw, press>>

\* sendEvent called by anyone but the Load handler, which runs to its end
\* before any other caller gets a turn.
SendEvent(event) ==
    /\ load \in {"idle", "failed"}
    /\ load' = "idle"
    /\ sendEvent(event)

\* sendEvent runs the tool actions first, then the data actions.
toolTurn(toolActions0, dataActions0) == toolActions0 # <<>>

\* The two loops of sendEvent in the other order.
dataTurnFirst(toolActions0, dataActions0) == dataActions0 # <<>>

dataTurn(toolActions0, dataActions0) == toolActions0 = <<>> /\ dataActions0 # <<>>

\* The notification placed between the two loops.
loopsDoneToolOnly(toolActions0, dataActions0) == toolActions0 = <<>>

\* sendEvent reaches "if (!changed) return; notifyListeners()" after both loops.
loopsDone(toolActions0, dataActions0) == toolActions0 = <<>> /\ dataActions0 = <<>>

\* AddObject puts the objects of action.map themselves into
\* DataState.objects (Object.assign copies references), and the tool
\* executor updates the objects of a scratch map in place: an object the
\* scratch map of the tool and DataState.objects both hold is one object,
\* recognised here by its ID.
sharedObjects(toolState0, dataState0) ==
    IF "tempObjectMap" \in DOMAIN toolState0.tool
    THEN [dataState0 EXCEPT !.objects =
             [i \in DOMAIN @ |-> IF i \in DOMAIN toolState0.tool.tempObjectMap
                                 THEN toolState0.tool.tempObjectMap[i]
                                 ELSE @[i]]]
    ELSE dataState0

\* One iteration of the first loop of sendEvent.
ExecTool ==
    /\ pc = "exec"
    /\ toolTurn(toolActions, dataActions)
    /\ LET action == Head(toolActions)
           r == executeToolAction(toolState, id, action)
       IN  /\ toolState' = r.toolState
           /\ id' = r.id
           /\ changed' = (changed \/ r.changed)
           /\ trace' = Append(trace,
                              [exec |-> "tool", kind |-> action.kind,
                               id |-> IF action.kind = "AddHistory"
                                      THEN action.action.id ELSE NoID,
                               changed |-> r.changed])
           /\ penClicks' = IF action.kind = "SelectTool" /\ r.changed
                           THEN (IF action.tool = "Pen" THEN 0 ELSE penClicks)
                           ELSE penClicks
           /\ dataState' = sharedObjects(r.toolState, dataState)
           /\ press' = CASE action.kind = "StartPan" ->
                              [point |-> action.point,
                               offset |-> toolState.viewBox.offset]
                          [] action.kind = "StopPan" -> NoPress
                          [] OTHER -> press
    /\ toolActions' = Tail(toolActions)
    /\ UNCHANGED <<listeners, pc, dataActions, calls, threw, inEvent, pre, load>>

\* An entry of the history whose action is the action object itself: its
\* map holds the objects that AddObject has put into DataState.objects, so
\* it shows what the data executor has written into them since.
historyAfterWriteShared(history, objects) ==
    [history EXCEPT !.nodes =
        [k \in DOMAIN @ |->
            IF @[k].action.kind = "AddObject"
            THEN [@[k] EXCEPT !.action.map =
                     [i \in DOMAIN @ |-> IF i \in DOMAIN objects THEN objects[i] ELSE @[i]]]
            ELSE @[k]]]

\* What a run of the data executor that leaves objects in DataState does to
\* the history.  AddHistory has stored JSON.parse(JSON.stringify(action)):
\* an entry shares no object with DataState.objects (unlike the action the
\* data executor is given), so the write-back of the solver, which assigns
\* to obj.point[index] of the live objects, leaves every entry as it is.
historyAfterWrite(history, objects) == history

\* One iteration of the second loop of sendEvent.  An Error thrown by the
\* solver escapes from sendEvent: the rest of the call is not run.
ExecData ==
    /\ pc = "exec"
    /\ dataTurn(toolActions, dataActions)
    /\ \E r \in executeDataAction(dataState, Head(dataActions)) :
          /\ dataState' = r.dataState
          /\ toolState' = [toolState EXCEPT !.history =
                               historyAfterWrite(@, r.dataState.objects)]
          /\ IF r.error = "none"
             THEN /\ changed' = (changed \/ r.changed)
                  /\ trace' = Append(trace,
                                     [exec |-> "data", kind |-> Head(dataActions).kind,
                                      id |-> Head(dataActions).id,
                                      changed |-> r.changed])
                  /\ dataActions' = Tail(dataActions)
                  /\ UNCHANGED <<pc, threw, toolActions, inEvent, pre>>
             ELSE /\ threw' = TRUE
                  /\ pc' = "idle"
                  /\ changed' = FALSE
                  /\ trace' = <<>>
                  /\ toolActions' = <<>>
                  /\ dataActions' = <<>>
                  /\ inEvent' = NoEvent
                  /\ pre' = NoPre
    /\ UNCHANGED <<id, listeners, calls, penClicks, press, load>>

\* notifyListeners: every registered listener is called once.
notifyListeners(listeners0, calls0) ==
    [l \in Listeners |-> IF l \in listeners0 THEN calls0[l] + 1 ELSE calls0[l]]

\* The end of sendEvent: "if (!changed) return; this.notifyListeners()".
Finish ==
    /\ pc = "exec"
    /\ loopsDone(toolActions, dataActions)
    /\ calls' = IF changed THEN notifyListeners(listeners, calls) ELSE calls
    /\ trace' = IF changed
                THEN Append(trace, [exec |-> "notify", kind |-> "notifyListeners",
                                    id |-> NoID, changed |-> FALSE])
                ELSE trace
    /\ pc' = "done"
    /\ UNCHANGED <<toolState, dataState, id, listeners, toolActions, dataActions,
                   changed, threw, penClicks, inEvent, pre, press, load>>

\* sendEvent returns to its caller.
Return ==
    /\ pc = "done"
    /\ pc' = "idle"
    /\ changed' = FALSE
    /\ trace' = <<>>
    /\ calls' = NoCalls
    /\ inEvent' = NoEvent
    /\ pre' = NoPre
    /\ UNCHANGED <<toolState, dataState, id, listeners, toolActions, dataActions,
                   threw, penClicks, press, load>>

AddStateChangeListener(h) ==
    /\ pc = "idle"
    /\ load \in {"idle", "failed"}
    /\ listeners' = listeners \cup {h}
    /\ UNCHANGED <<toolState, dataState, id, pc, toolActions, dataActions, changed,
                   trace, calls, threw, penClicks, inEvent, pre, press, load>>

RemoveStateChangeListener(h) ==
    /\ pc = "idle"
    /\ load \in {"idle", "failed"}
    /\ listeners' = listeners \ {h}
    /\ UNCHANGED <<toolState, dataState, id, pc, toolActions, dataActions, changed,
                   trace, calls, threw, penClicks, inEvent, pre, press, load>>

(***************************************************************************)
(* Save and Load (the LeftSideBar of the App).                             *)
(* A persisted file is what JSON.parse makes of it, or parses = FALSE when *)
(* JSON.parse throws.  A node of a persisted history may lack its action   *)
(* or its children.                                                        *)
(***************************************************************************)
\* JSON.stringify writes a number that is not finite as null.
Null == -1000000009

jsonNumber(n) == IF n = Undef THEN Null ELSE n

jsonObject(obj) ==
    IF pointLikeObject(obj.kind)
    THEN [obj EXCEPT !.point = <<jsonNumber(@[1]), jsonNumber(@[2])>>]
    ELSE obj

\* JSON.parse(JSON.stringify(action))
jsonAction(action) ==
    CASE action.kind = "AddObject" ->
            [action EXCEPT !.map = [i \in DOMAIN @ |-> jsonObject(@[i])]]
      [] action.kind = "AddConstraint" /\ action.constraint.kind = "Distance" ->
            [action EXCEPT !.constraint.distance = jsonNumber(@)]
      [] OTHER -> action

\* The file Save writes, as Load will parse it.
serialiseStates(state) ==
    [parses |-> TRUE,
     history |-> [state.history EXCEPT !.nodes =
                     [k \in DOMAIN @ |-> [@[k] EXCEPT !.action = jsonAction(@)]]]]

\* The actions and histories of the files below: what a session that sent
\* AddObject events for two Nodes and the Line between them, selected the
\* Line and sent AddVerticalConstraint has saved.
SavedNode1 ==
    [id |-> 2, kind |-> "AddObject",
     map |-> [i \in {1} |-> [id |-> 1, guide |-> FALSE, kind |-> "Node",
                             point |-> <<0, 0>>]]]

SavedNode3 ==
    [id |-> 4, kind |-> "AddObject",
     map |-> [i \in {3} |-> [id |-> 3, guide |-> FALSE, kind |-> "Node",
                             point |-> <<40, 0>>]]]

SavedLine5 ==
    [id |-> 6, kind |-> "AddObject",
     map |-> [i \in {5} |-> [id |-> 5, guide |-> FALSE, kind |-> "Line",
                             point1 |-> 1, point2 |-> 3]]]

SavedVertical ==
    [id |-> 7, kind |-> "AddConstraint",
     constraint |-> [kind |-> "Vertical", object |-> 5]]

\* The files a user may pick: an empty history, one Node, the whole saved
\* drawing, a file whose only node has an action but no children, and a file
\* that is not JSON.
Files ==
    {[parses |-> TRUE, history |-> EmptyHistory],
     [parses |-> TRUE, history |-> appendHistory(EmptyHistory, SavedNode1)],
     [parses |-> TRUE,
      history |-> appendHistory(appendHistory(appendHistory(appendHistory(
                      EmptyHistory, SavedNode1), SavedNode3), SavedLine5), SavedVertical)],
     [parses |-> TRUE,
      history |-> [nodes |-> <<[action |-> SavedNode1]>>, root |-> 1, cur |-> 1]],
     [parses |-> FALSE, history |-> EmptyHistory]}

\* Drawing.resetTool: this.toolState = initialToolState().  Its call of
\* notifyListeners changes nothing of the Drawing.
resetTool == initialToolState

\* Drawing.executeDataAction(action), the method the Load handler calls: the
\* data executor run on this.dataState.
DrawingExecuteDataAction(dataState0, action) == executeDataAction(dataState0, action)

\* The loop of the Load handler from node cur on: "executeDataAction(
\* cur.action); cur = cur.children[0]" until cur is undefined.  The outcomes
\* are the DataState at the end of the loop, or (error # "none") the
\* DataState as the exception that ends the handler leaves it.
RECURSIVE loadWalk(_, _, _)
loadWalk(dataState0, history, cur) ==
    IF cur = 0
    THEN {[dataState |-> dataState0, error |-> "none"]}
    ELSE LET node == history.nodes[cur]
         IN  IF "action" \notin DOMAIN node
             THEN {[dataState |-> dataState0, error |-> "TypeError"]}
             ELSE UNION
                  {IF r.error # "none"
                   THEN {[dataState |-> r.dataState, error |-> r.error]}
                   ELSE IF "children" \notin DOMAIN node
                   THEN {[dataState |-> r.dataState, error |-> "TypeError"]}
                   ELSE loadWalk(r.dataState, history,
                                 IF node.children = <<>> THEN 0 ELSE node.children[1]) :
                      r \in DrawingExecuteDataAction(dataState0, node.action)}

\* The number of AddConstraint actions on the way from node cur on.
RECURSIVE loadConstraints(_, _)
loadConstraints(history, cur) ==
    IF cur = 0 THEN 0
    ELSE LET node == history.nodes[cur]
         IN  IF "action" \notin DOMAIN node THEN 0
             ELSE (IF node.action.kind = "AddConstraint" THEN 1 ELSE 0)
                  + (IF "children" \notin DOMAIN node \/ node.children = <<>> THEN 0
                     ELSE loadConstraints(history, node.children[1]))

\* The Load handler up to its two calls of sendEvent: JSON.parse, resetTool,
\* the loop over the persisted actions.
Load(file) ==
    /\ pc = "idle"
    /\ load \in {"idle", "failed"}
    /\ Len(dataState.constraints) + loadConstraints(file.history, file.history.root)
           <= MaxConstraints
    /\ IF ~file.parses
       THEN /\ load' = "failed"
            /\ pre' = Snapshot(toolState, dataState, id)
            /\ UNCHANGED <<toolState, dataState, press, penClicks>>
       ELSE \E r \in loadWalk(dataState, file.history, file.history.root) :
               /\ toolState' = resetTool
               /\ dataState' = r.dataState
               /\ press' = NoPress
               /\ penClicks' = -1
               /\ IF r.error = "none"
                  THEN load' = "resize" /\ pre' = NoPre
                  ELSE load' = "failed" /\ pre' = Snapshot(toolState, dataState, id)
    /\ UNCHANGED <<id, listeners, pc, toolActions, dataActions, changed, trace, calls,
                   threw, inEvent>>

\* props.state.drawingSize, the size of the drawing area when Load runs.
drawingSize == <<100, 80>>

\* Math.round(a / b) for positive a and b.
Round(a, b) == (2 * a + b) \div (2 * b)

\* The events the Load handler sends after the loop.
loadEvent(step) ==
    IF step = "resize"
    THEN [kind |-> "ResizeView", viewWidth |-> drawingSize[1],
          viewHeight |-> drawingSize[2]]
    ELSE [kind |-> "SetViewOffset",
          offset |-> <<-Round(1000 * drawingSize[1], 2618),
                       -Round(1618 * drawingSize[2], 2618)>>]

\* The Load handler calls sendEvent: ResizeView, then SetViewOffset.
LoadSendEvent ==
    /\ load \in {"resize", "offset"}
    /\ sendEvent(loadEvent(load))
    /\ load' = IF load = "resize" THEN "offset" ELSE "idle"

Next ==
    \/ \E event \in Events : SendEvent(event)
    \/ \E file \in Files : Load(file)
    \/ LoadSendEvent
    \/ ExecTool
    \/ ExecData
    \/ Finish
    \/ Return
    \/ \E h \in Listeners : AddStateChangeListener(h)
    \/ \E h \in Listeners : RemoveStateChangeListener(h)

Spec == Init /\ [][Next]_vars

(***************************************************************************)
(* Specifications over parts of the event alphabet.                        *)
(***************************************************************************)
\* Drawing with the Pen: mouse and keyboard events only.
PenEvents ==
    {e \in Events : e.kind \in {"MouseMove", "MouseDown", "MouseUp", "KeyDown", "KeyUp"}}

NextPen ==
    \/ \E event \in PenEvents : SendEvent(event)
    \/ ExecTool
    \/ ExecData
    \/ Finish
    \/ Return

SpecPen == Init /\ [][NextPen]_vars

\* Objects added by AddObject events, selected by plain primary clicks and
\* constrained.
DataEvents ==
    {e \in Events :
        \/ e.kind \in ConstraintEventKinds
        \/ e.kind = "AddObject" /\ e.object.kind \in {"Node", "FixedNode", "Line"}
        \/ e.kind = "MouseDown" /\ e.button = "Primary" /\ ~e.ctrl}

NextData ==
    \/ \E event \in DataEvents : SendEvent(event)
    \/ ExecTool
    \/ ExecData
    \/ Finish
    \/ Return

SpecData == Init /\ [][NextData]_vars

\* Constraint events over selections of every size, in and out of the
\* Selector tool: Nodes and Lines added by AddObject events, plain primary
\* clicks, the keys of the Pen and the Selector tool.
SelectEvents ==
    {e \in Events :
        \/ e.kind \in ConstraintEventKinds
        \/ e.kind = "KeyDown" /\ e.key \in {"p", "s"}
        \/ e.kind = "AddObject" /\ e.object.kind \in {"Node", "Line"}
        \/ e.kind = "MouseDown" /\ e.button = "Primary" /\ ~e.ctrl}

NextSelect ==
    \/ \E event \in SelectEvents : SendEvent(event)
    \/ ExecTool
    \/ ExecData
    \/ Finish
    \/ Return

SpecSelect == Init /\ [][NextSelect]_vars

\* Every object an AddObject event may carry, and primary clicks.
ObjectEvents ==
    {e \in Events :
        \/ e.kind = "AddObject"
        \/ e.kind = "MouseDown" /\ e.button = "Primary"}

NextObjects ==
    \/ \E event \in ObjectEvents : SendEvent(event)
    \/ ExecTool
    \/ ExecData
    \/ Finish
    \/ Return

SpecObjects == Init /\ [][NextObjects]_vars

\* Listeners come and go; keys, primary clicks, the events of the Text tool,
\* two of the constraint events and the AddObject event that carries a Node
\* away from the cursor (there is no MouseMove: the cursor stays at the
\* origin, and no key 'p': the tools are Selector and Text).
NotifyEvents ==
    {e \in Events :
        \/ e.kind \in {"KeyUp", "SelectTextTool", "SetTextValue",
                       "AddCoincidentConstraint", "AddHorizontalConstraint"}
        \/ e.kind = "KeyDown" /\ e.key # "p"
        \/ e.kind = "MouseDown" /\ e.button = "Primary"
        \/ e.kind = "AddObject" /\ e.object = [kind |-> "Node", point |-> <<40, 0>>]}

NextNotify ==
    \/ \E event \in NotifyEvents : SendEvent(event)
    \/ ExecTool
    \/ ExecData
    \/ Finish
    \/ Return
    \/ \E h \in Listeners : AddStateChangeListener(h)
    \/ \E h \in Listeners : RemoveStateChangeListener(h)

SpecNotify == Init /\ [][NextNotify]_vars

\* A FixedNode, a Node away from it and a Line from ID 1 to ID 3 are added,
\* selected by plain primary clicks on them and constrained.
FixedEvents ==
    {e \in Events :
        \/ e.kind \in {"AddCoincidentConstraint", "AddDistanceConstraint",
                       "AddVerticalConstraint"}
        \/ e.kind = "AddObject" /\ e.object \in
               {[kind |-> "FixedNode", point |-> <<0, 0>>],
                [kind |-> "Node", point |-> <<40, 0>>],
                [kind |-> "Line", point1 |-> 1, point2 |-> 3]}
        \/ e.kind = "MouseDown" /\ e.button = "Primary" /\ ~e.ctrl
               /\ e.point \in {<<0, 0>>, <<40, 0>>}}

NextFixed ==
    \/ \E event \in FixedEvents : SendEvent(event)
    \/ ExecTool
    \/ ExecData
    \/ Finish
    \/ Return

SpecFixed == Init /\ [][NextFixed]_vars

\* The three tools and the view: the cursor moves between two points, the
\* keys of the tools, the events of the Text tool and of the view, plain
\* primary clicks and the secondary button that pans, both pressed at the
\* origin.
ToolEvents ==
    {e \in Events :
        \/ e.kind \in {"SelectTextTool", "SetTextValue", "ResizeView"}
        \/ e.kind = "SetViewOffset" /\ e.offset = <<0, 0>>
        \/ e.kind = "KeyDown" /\ e.key \in {"p", "s", "Enter"}
        \/ e.kind = "MouseMove" /\ e.point \in {<<0, 0>>, <<20, 0>>}
        \/ e.kind = "MouseDown" /\ e.button = "Primary" /\ ~e.ctrl
               /\ e.point = <<0, 0>>
        \/ e.kind \in {"MouseDown", "MouseUp"} /\ e.button = "Secondary" /\ ~e.ctrl
               /\ e.point = <<0, 0>>}

NextTools ==
    \/ \E event \in ToolEvents : SendEvent(event)
    \/ ExecTool
    \/ ExecData
    \/ Finish
    \/ Return

SpecTools == Init /\ [][NextTools]_vars

\* Panning: the cursor moves, the secondary button goes down and up, and
\* SetViewOffset sets the offset the pan starts from.
PanEvents ==
    {e \in Events :
        \/ e.kind \in {"MouseMove", "SetViewOffset"}
        \/ e.kind \in {"MouseDown", "MouseUp"} /\ e.button = "Secondary" /\ ~e.ctrl}

NextPan ==
    \/ \E event \in PanEvents : SendEvent(event)
    \/ ExecTool
    \/ Finish
    \/ Return

SpecPan == Init /\ [][NextPan]_vars

\* Files are loaded between AddObject events for Nodes and Lines, plain
\* primary clicks and AddVerticalConstraint events.
LoadEvents ==
    {e \in Events :
        \/ e.kind = "AddVerticalConstraint"
        \/ e.kind = "AddObject" /\ e.object.kind \in {"Node", "Line"}
        \/ e.kind = "MouseDown" /\ e.button = "Primary" /\ ~e.ctrl}

NextLoad ==
    \/ \E event \in LoadEvents : SendEvent(event)
    \/ \E file \in Files : Load(file)
    \/ LoadSendEvent
    \/ ExecTool
    \/ ExecData
    \/ Finish
    \/ Return

SpecLoad == Init /\ [][NextLoad]_vars

\* Drawing a Path while the view moves: the keys of the Pen and of the
\* commit, the cursor, plain primary clicks, the secondary button that pans
\* (pressed and released at the origin) and the events of the view.
DrawEvents ==
    {e \in Events :
        \/ e.kind \in {"MouseMove", "SetViewOffset", "ResizeView"}
        \/ e.kind = "KeyDown" /\ e.key \in {"p", "Enter"}
        \/ e.kind = "MouseDown" /\ e.button = "Primary" /\ ~e.ctrl
        \/ e.kind \in {"MouseDown", "MouseUp"} /\ e.button = "Secondary" /\ ~e.ctrl
               /\ e.point = <<0, 0>>}

NextDraw ==
    \/ \E event \in DrawEvents : SendEvent(event)
    \/ ExecTool
    \/ ExecData
    \/ Finish
    \/ Return

SpecDraw == Init /\ [][NextDraw]_vars

\* Paths drawn and committed: the keys of the Pen and of the commit, the
\* cursor between two points and plain primary clicks.
PathEvents ==
    {e \in Events :
        \/ e.kind = "KeyDown" /\ e.key \in {"p", "Enter"}
        \/ e.kind = "MouseMove" /\ e.point \in {<<0, 0>>, <<40, 0>>}
        \/ e.kind = "MouseDown" /\ e.button = "Primary" /\ ~e.ctrl}

NextPath ==
    \/ \E event \in PathEvents : SendEvent(event)
    \/ ExecTool
    \/ ExecData
    \/ Finish
    \/ Return

SpecPath == Init /\ [][NextPath]_vars

\* Two Nodes are added, selected and deselected by primary clicks with and
\* without ctrl (also on empty space), and constrained.
OrderEvents ==
    {e \in Events :
        \/ e.kind \in {"AddCoincidentConstraint", "AddDistanceConstraint",
                       "AddHorizontalConstraint"}
        \/ e.kind = "AddObject" /\ e.object.kind = "Node"
        \/ e.kind = "MouseDown" /\ e.button = "Primary"}

NextOrder ==
    \/ \E event \in OrderEvents : SendEvent(event)
    \/ ExecTool
    \/ ExecData
    \/ Finish
    \/ Return

SpecOrder == Init /\ [][NextOrder]_vars

\* The Text tool: it is selected and left again, the body is set to one of
\* two values, the cursor moves and plain primary clicks commit.
TextEvents ==
    {e \in Events :
        \/ e.kind \in {"SelectTextTool", "SetTextValue", "MouseMove"}
        \/ e.kind = "KeyDown" /\ e.key = "s"
        \/ e.kind = "MouseDown" /\ e.button = "Primary" /\ ~e.ctrl}
    \cup {[kind |-> "SetTextValue", text |-> "b"]}

NextText ==
    \/ \E event \in TextEvents : SendEvent(event)
    \/ ExecTool
    \/ ExecData
    \/ Finish
    \/ Return

SpecText == Init /\ [][NextText]_vars

\* Lines under the cursor: Nodes at three places (two on the x axis, one
\* off it), Lines from ID 1 to ID 3 and from ID 1 to itself, and the cursor
\* moved on, inside, outside and to the borders of the hit regions (the y
\* axis of the viewport points down, the one of the data up).
HitPoints ==
    {<<-10, 0>>, <<-9, 0>>, <<50, 0>>, <<51, 0>>, <<20, 10>>, <<20, 11>>,
     <<-10, 10>>, <<-9, 10>>, <<-1, 0>>, <<41, 0>>, <<20, 1>>, <<20, 2>>,
     <<-6, 8>>, <<7, -26>>, <<36, -48>>, <<15, -20>>}

HitEvents ==
    [kind : {"MouseMove"}, point : HitPoints]
    \cup {[kind |-> "AddObject", guide |-> FALSE, object |-> o] :
             o \in {[kind |-> "Node", point |-> <<0, 0>>],
                    [kind |-> "Node", point |-> <<40, 0>>],
                    [kind |-> "Node", point |-> <<30, 40>>],
                    [kind |-> "Line", point1 |-> 1, point2 |-> 3],
                    [kind |-> "Line", point1 |-> 1, point2 |-> 1]}}

NextHit ==
    \/ \E event \in HitEvents : SendEvent(event)
    \/ ExecTool
    \/ ExecData
    \/ Finish
    \/ Return

SpecHit == Init /\ [][NextHit]_vars

\* Choosing among objects of every kind: the objects an AddObject event may
\* carry, primary clicks with and without ctrl, the keys of the three tools
\* and the Text tool, whose commit adds a Text and its Node.
ChooseEvents ==
    {e \in Events :
        \/ e.kind = "AddObject"
        \/ e.kind = "SelectTextTool"
        \/ e.kind = "KeyDown" /\ e.key \in {"p", "s", "Enter"}
        \/ e.kind = "MouseDown" /\ e.button = "Primary"}

NextChoose ==
    \/ \E event \in ChooseEvents : SendEvent(event)
    \/ ExecTool
    \/ ExecData
    \/ Finish
    \/ Return

SpecChoose == Init /\ [][NextChoose]_vars

\* Picking among what the Pen has drawn: the keys of the Pen and of the
\* commit, the cursor between two points 40 apart, and primary clicks with
\* and without ctrl.
PickEvents ==
    {e \in Events :
        \/ e.kind = "KeyDown" /\ e.key \in {"p", "Enter"}
        \/ e.kind = "MouseMove" /\ e.point \in {<<0, 0>>, <<40, 0>>}
        \/ e.kind = "MouseDown" /\ e.button = "Primary"}

NextPick ==
    \/ \E event \in PickEvents : SendEvent(event)
    \/ ExecTool
    \/ ExecData
    \/ Finish
    \/ Return

SpecPick == Init /\ [][NextPick]_vars

\* A file whose history holds one action, the Horizontal constraint on the
\* object with ID 1.
SavedHorizontal1 ==
    [id |-> 5, kind |-> "AddConstraint",
     constraint |-> [kind |-> "Horizontal", object |-> 1]]

AssembleFiles ==
    {[parses |-> TRUE, history |-> appendHistory(EmptyHistory, SavedHorizontal1)]}

\* The variables of the solver: Nodes and the Line from ID 1 to ID 3 are
\* added in any order, selected by plain primary clicks and constrained by
\* events, and the file that constrains object 1 is loaded.
AssembleEvents ==
    {e \in Events :
        \/ e.kind \in {"AddHorizontalConstraint", "AddCoincidentConstraint"}
        \/ e.kind = "AddObject" /\ e.object.kind \in {"Node", "Line"}
        \/ e.kind = "MouseDown" /\ e.button = "Primary" /\ ~e.ctrl}

NextAssemble ==
    \/ \E event \in AssembleEvents : SendEvent(event)
    \/ \E file \in AssembleFiles : Load(file)
    \/ LoadSendEvent
    \/ ExecTool
    \/ ExecData
    \/ Finish
    \/ Return

SpecAssemble == Init /\ [][NextAssemble]_vars

\* A sloping Line is levelled: Nodes at two heights, 40 apart, and the Line
\* from ID 1 to ID 3 are added, selected by plain primary clicks (on the
\* first Node, on the second and on the middle of the Line; the y axis of
\* the viewport points down) and constrained.
LevelEvents ==
    [kind : {"AddHorizontalConstraint", "AddVerticalConstraint",
             "AddCoincidentConstraint"}]
    \cup [kind : {"AddDistanceConstraint"}, distance : Distances]
    \cup {[kind |-> "AddObject", guide |-> FALSE, object |-> o] :
             o \in {[kind |-> "Node", point |-> <<0, 0>>],
                    [kind |-> "Node", point |-> <<24, 32>>],
                    [kind |-> "Line", point1 |-> 1, point2 |-> 3]}}
    \cup {[kind |-> "MouseDown", ctrl |-> FALSE, button |-> "Primary", point |-> q] :
             q \in {<<0, 0>>, <<24, -32>>, <<12, -16>>}}

NextLevel ==
    \/ \E event \in LevelEvents : SendEvent(event)
    \/ ExecTool
    \/ ExecData
    \/ Finish
    \/ Return

SpecLevel == Init /\ [][NextLevel]_vars

(***************************************************************************)
(* Properties of the object map.                                           *)
(***************************************************************************)
\* C1: in every state reachable by any sequence of events, AddObject events
\* with any object included, every Line in DataState.objects has a point1
\* and a point2 that key existing objects of kind Node or FixedNode.
LineEndpointsExist ==
    \A i \in DOMAIN dataState.objects :
        dataState.objects[i].kind = "Line" =>
            /\ IsPointLike(dataState.objects, dataState.objects[i].point1)
            /\ IsPointLike(dataState.objects, dataState.objects[i].point2)

\* The shape of one Path P inside an object map: no points and no lines, or
\* one line fewer than points, line i joining point i and point i + 1.
PathShape(objects, P) ==
    \/ P.points = <<>> /\ P.lines = <<>>
    \/ /\ P.points # <<>>
       /\ Len(P.lines) = Len(P.points) - 1
       /\ \A k \in DOMAIN P.lines :
             /\ IsKind(objects, P.lines[k], "Line")
             /\ objects[P.lines[k]].point1 = P.points[k]
             /\ objects[P.lines[k]].point2 = P.points[k + 1]

\* C2: in every reachable state, every Path in DataState.objects has either
\* no points and no lines, or exactly |points| - 1 lines, lines[i] keying a
\* Line whose endpoints are points[i] and points[i+1].
PathsWellFormed ==
    \A i \in DOMAIN dataState.objects :
        dataState.objects[i].kind = "Path" =>
            PathShape(dataState.objects, dataState.objects[i])

(***************************************************************************)
(* The Pen commit.                                                         *)
(***************************************************************************)
OfKind(map, kind) == {i \in DOMAIN map : map[i].kind = kind}

\* map holds one Path of k Nodes and max(k - 1, 0) Lines joining consecutive
\* Nodes, and nothing else.
PenPathOf(map, k) ==
    /\ Cardinality(OfKind(map, "Path")) = 1
    /\ Cardinality(OfKind(map, "Node")) = k
    /\ Cardinality(OfKind(map, "Line")) = IF k >= 1 THEN k - 1 ELSE 0
    /\ DOMAIN map = OfKind(map, "Path") \cup OfKind(map, "Node") \cup OfKind(map, "Line")
    /\ \A p \in OfKind(map, "Path") :
          /\ Len(map[p].points) = k
          /\ SeqRange(map[p].points) = OfKind(map, "Node")
          /\ SeqRange(map[p].lines) = OfKind(map, "Line")
          /\ PathShape(map, map[p])

EnterEvent == [kind |-> "KeyDown", key |-> "Enter"]

Kinds(entries) == [k \in DOMAIN entries |-> entries[k].kind]

\* C3: after the Pen tool is entered, k >= 0 primary MouseDown events (with
\* MouseMove events in between) and KeyDown 'Enter', DataState.objects gains
\* exactly one Path with k Nodes and max(k - 1, 0) Lines joining consecutive
\* Nodes, without the rubber-band Node, its Line and the live sub-path;
\* exactly one AddObject entry is appended to the history; the tool becomes
\* Selector with an empty selection.
PenCommit ==
    [][/\ (/\ penClicks >= 0
           /\ toolState.tool.kind = "Pen"
           /\ pc = "idle"
           /\ inEvent' = EnterEvent) =>
             /\ Kinds(dataActions') = <<"AddObject">>
             /\ PenPathOf(dataActions'[1].map, penClicks)
             /\ (DOMAIN dataActions'[1].map) \cap (DOMAIN dataState.objects) = {}
             /\ Kinds(toolActions') = <<"SelectTool", "AddHistory">>
             /\ toolActions'[1].tool = "Selector"
             /\ toolActions'[2].action = dataActions'[1]
       /\ (pc = "exec" /\ penClicks >= 0 /\ toolActions # <<>>
              /\ Head(toolActions).kind = "AddHistory") =>
             /\ Len(toolState'.history.nodes) = Len(toolState.history.nodes) + 1
             /\ toolState'.history.nodes[toolState'.history.cur].action = Head(dataActions)
             /\ toolState'.tool = [kind |-> "Selector", selectedObjects |-> <<>>]
       /\ (pc = "exec" /\ penClicks >= 0 /\ toolActions = <<>> /\ dataActions # <<>>) =>
             /\ dataState'.objects = Merge(dataState.objects, Head(dataActions).map)
             /\ \A i \in DOMAIN dataState.objects :
                   dataState'.objects[i] = dataState.objects[i]
             /\ dataState'.constraints = dataState.constraints
             /\ dataActions' = <<>>
             /\ toolState' = toolState
             /\ toolState'.tool = [kind |-> "Selector", selectedObjects |-> <<>>]
             /\ Kinds(trace') = <<"SelectTool", "AddHistory", "AddObject">>
      ]_vars

\* A commit after two clicks has returned: the Path of two Nodes and one
\* Line is in DataState.objects.
PenCommitDone ==
    /\ pc = "done"
    /\ penClicks = 2
    /\ Kinds(trace) = <<"SelectTool", "AddHistory", "AddObject", "notifyListeners">>
    /\ toolState.tool.kind = "Selector"
    /\ PenPathOf(dataState.objects, 2)

(***************************************************************************)
(* Constraint events and the data executor.                                *)
(***************************************************************************)
\* Operands that are not of the kinds the constraint needs: Perpendicular,
\* Horizontal or Vertical on an object that is not a Line.
WrongKindOperands(objects, cons) ==
    CASE cons.kind = "Perpendicular" ->
            ~IsKind(objects, cons.line1, "Line") \/ ~IsKind(objects, cons.line2, "Line")
      [] cons.kind \in {"Horizontal", "Vertical"} ->
            ~IsKind(objects, cons.object, "Line")
      [] OTHER -> FALSE

\* C4: an AddConstraint whose operands are not of the kinds the constraint
\* needs is skipped: DataState.constraints and every coordinate stay as they
\* are, the data executor reports "no change" and no listener is notified.
WrongKindConstraintSkipped ==
    [][(/\ pc = "exec"
        /\ toolActions = <<>>
        /\ dataActions # <<>>
        /\ Head(dataActions).kind = "AddConstraint"
        /\ WrongKindOperands(dataState.objects, Head(dataActions).constraint)) =>
           /\ dataState' = dataState
           /\ ~changed'
           /\ \A k \in DOMAIN trace' : ~trace'[k].changed
      ]_vars

\* The selection sizes each constraint event refuses.
WrongCardinality(kind, size) ==
    CASE kind \in {"AddPerpendicularConstraint", "AddCoincidentConstraint"} -> size # 2
      [] kind \in {"AddHorizontalConstraint", "AddVerticalConstraint"} -> size # 1
      [] kind = "AddDistanceConstraint" -> size # 1 /\ size # 2

Refused(event) ==
    \/ toolState.tool.kind # "Selector"
    \/ WrongCardinality(event.kind, Len(toolState.tool.selectedObjects))

\* C5: a constraint event sent while the selection has the wrong cardinality,
\* or while the tool is not Selector, emits no action; constraints,
\* coordinates, selection and history stay as they are and no listener is
\* notified.
ConstraintEventRefused ==
    [][/\ (/\ pc = "idle"
           /\ pc' = "exec"
           /\ inEvent'.kind \in ConstraintEventKinds
           /\ Refused(inEvent')) =>
             /\ toolActions' = <<>>
             /\ dataActions' = <<>>
             /\ toolState' = toolState
             /\ dataState' = dataState
       /\ (/\ pc = "exec"
           /\ inEvent.kind \in ConstraintEventKinds
           /\ dataActions = <<>>
           /\ trace = <<>>) =>
             /\ toolActions = <<>>
             /\ pc' = "done"
             /\ trace' = <<>>
             /\ calls' = NoCalls
             /\ toolState' = toolState
             /\ dataState' = dataState
      ]_vars

\* A constraint event was refused with a selection of the wrong size, and
\* its sendEvent is over without a notification.
ConstraintEventRefusedDone ==
    /\ pc = "done"
    /\ inEvent.kind = "AddPerpendicularConstraint"
    /\ trace = <<>>
    /\ toolState.tool.kind = "Selector"
    /\ Len(toolState.tool.selectedObjects) = 3
    /\ dataState.constraints = <<>>

\* C6 as stated: the AddHistory for a data action is executed only after the
\* data executor has applied that action (tool-state mutation, data-state
\* mutation, history recording).
HistoryAfterData ==
    \A k \in DOMAIN trace :
        trace[k].kind = "AddHistory" =>
            \E j \in 1..(k - 1) : trace[j].exec = "data" /\ trace[j].id = trace[k].id

\* C6 amended: within one sendEvent the tool actions of the event run first,
\* then the AddHistory of each data action records it, and only then does
\* the data executor apply the action.
HistoryBeforeData ==
    /\ \A k \in DOMAIN trace :
          trace[k].exec = "data" =>
              /\ toolActions = <<>>
              /\ \E j \in 1..(k - 1) :
                    /\ trace[j].kind = "AddHistory"
                    /\ trace[j].id = trace[k].id
                    /\ \A i \in 1..(j - 1) : trace[i].exec = "tool"
    /\ \A k \in DOMAIN trace :
          trace[k].kind = "AddHistory" =>
              /\ \A j \in 1..(k - 1) : trace[j].exec = "tool"
              /\ \A j \in DOMAIN trace :
                    (j > k /\ trace[j].exec = "tool") => trace[j].kind = "AddHistory"
              /\ toolState.history.cur \in DOMAIN toolState.history.nodes
              /\ \E n \in DOMAIN toolState.history.nodes :
                    toolState.history.nodes[n].action.id = trace[k].id

\* An AddConstraint went through both executors: recorded, then applied.
HistoryThenData ==
    /\ pc = "done"
    /\ inEvent.kind = "AddHorizontalConstraint"
    /\ Kinds(trace) = <<"AddHistory", "AddConstraint", "notifyListeners">>
    /\ Len(dataState.constraints) = 1

(***************************************************************************)
(* The translator.                                                         *)
(***************************************************************************)
\* C7: generateAction is a pure function: for every tool state, data state
\* and event (KeyDown 'Enter' in the Pen tool in particular) it returns its
\* action lists without changing ToolState, the Pen scratch map included, or
\* DataState.
GenerateActionPure ==
    [][(pc = "idle" /\ pc' = "exec") =>
           (toolState' = toolState /\ dataState' = dataState)]_vars

(***************************************************************************)
(* Notification.                                                           *)
(***************************************************************************)
\* Events that generate no action or only actions without effect, in the
\* current state: KeyUp, an unbound key, the key or event of the active
\* tool, ctrl-click on an object that is not selected, SetTextValue outside
\* the Text tool.
NoOpEvent(event) ==
    LET tool == toolState.tool
    IN  \/ event.kind = "KeyUp"
        \/ event.kind = "KeyDown" /\ event.key = "x"
        \/ event.kind = "KeyDown" /\ event.key = "p" /\ tool.kind = "Pen"
        \/ event.kind = "KeyDown" /\ event.key = "s" /\ tool.kind = "Selector"
        \/ event.kind = "SelectTextTool" /\ tool.kind = "Text"
        \/ /\ event.kind = "MouseDown"
           /\ event.button = "Primary"
           /\ event.ctrl
           /\ tool.kind = "Selector"
           /\ hitScan(toolState, dataState, event.point) # NoID
           /\ hitScan(toolState, dataState, event.point) \notin SeqRange(tool.selectedObjects)
        \/ event.kind = "SetTextValue" /\ tool.kind # "Text"

Notified(entries) == \E k \in DOMAIN entries : entries[k].exec = "notify"

\* C8: sendEvent notifies the listeners if and only if an executed tool or
\* data action reported a change, and then calls each registered listener
\* exactly once; an event that generates no action or only no-op actions
\* produces no notification and leaves ToolState and DataState unchanged.
NotifyIffChanged ==
    [][/\ (pc = "exec" /\ pc' = "done") =>
             LET reported == \E k \in DOMAIN trace : trace[k].changed
             IN  /\ Notified(trace') <=> reported
                 /\ calls' = [l \in Listeners |->
                                 IF reported /\ l \in listeners THEN 1 ELSE 0]
       /\ (pc = "idle" /\ pc' = "exec" /\ NoOpEvent(inEvent')) =>
             /\ toolState' = toolState
             /\ dataState' = dataState
             /\ dataActions' = <<>>
       /\ (pc = "exec" /\ ~changed /\ NoOpEvent(inEvent)) =>
             /\ toolState' = toolState
             /\ dataState' = dataState
             /\ ~changed'
             /\ ~Notified(trace')
             /\ calls' = NoCalls
      ]_vars

\* A click cleared a selection of two objects while one of the two known
\* listeners was registered: that one was called once, the other not.
NotifiedOnce ==
    /\ pc = "done"
    /\ inEvent.kind = "MouseDown"
    /\ Kinds(trace) = <<"DeselectObject", "DeselectObject", "notifyListeners">>
    /\ listeners = {"l1"}
    /\ calls = [l \in Listeners |-> IF l = "l1" THEN 1 ELSE 0]

\* C9: whenever sendEvent invokes a listener, every tool action and every
\* data action generated for the event, the solver run of an AddConstraint
\* included, has been applied.
ListenersSeeCompleteState ==
    (Notified(trace) \/ \E l \in Listeners : calls[l] > 0) =>
        /\ pc = "done"
        /\ toolActions = <<>>
        /\ dataActions = <<>>
        /\ \A k \in DOMAIN trace :
              trace[k].kind = "AddHistory" =>
                  \E j \in DOMAIN trace : trace[j].exec = "data" /\ trace[j].id = trace[k].id
        /\ inEvent.kind = "AddObject" => Kinds(trace) = <<"AddHistory", "AddObject", "notifyListeners">>
        /\ (inEvent.kind \in ConstraintEventKinds) =>
              /\ Kinds(trace) = <<"AddHistory", "AddConstraint", "notifyListeners">>
              /\ dataState.constraints # <<>>

\* A listener was called for an AddConstraint, after the solver run.
ListenerCalledAfterSolve ==
    /\ pc = "done"
    /\ inEvent.kind = "AddCoincidentConstraint"
    /\ calls["l2"] = 1
    /\ Kinds(trace) = <<"AddHistory", "AddConstraint", "notifyListeners">>
    /\ Len(dataState.constraints) = 1

RECURSIVE loadKeysFresh(_, _, _)
loadKeysFresh(keys, history, cur) ==
    IF cur = 0 THEN TRUE
    ELSE LET node == history.nodes[cur]
         IN  IF "action" \notin DOMAIN node THEN TRUE
             ELSE LET new == IF node.action.kind = "AddObject"
                             THEN DOMAIN node.action.map ELSE {}
                  IN  /\ new \cap keys = {}
                      /\ IF "children" \notin DOMAIN node \/ node.children = <<>>
                         THEN TRUE
                         ELSE loadKeysFresh(keys \cup new, history, node.children[1])

\* C11: object IDs are never reused: the counter of generateID never goes
\* down, every AddObject that sendEvent executes merges a map none of whose
\* keys is a key of DataState.objects already, and so does every AddObject
\* that Load replays from a persisted history.
IDsNeverReused ==
    [][/\ id' >= id
       /\ (pc = "exec" /\ dataTurn(toolActions, dataActions)
               /\ Head(dataActions).kind = "AddObject") =>
              DOMAIN Head(dataActions).map \cap DOMAIN dataState.objects = {}
       /\ \A file \in Files :
              Load(file) /\ file.parses =>
                  loadKeysFresh(DOMAIN dataState.objects, file.history,
                                file.history.root)]_vars

(***************************************************************************)
(* The frame of the solver.                                                *)
(***************************************************************************)
\* The constraints an AddConstraint may carry over the objects of a map.
ConstraintsOver(objects) ==
    LET ids == DOMAIN objects
    IN  [kind : {"Horizontal", "Vertical"}, object : ids]
        \cup [kind : {"Coincident"}, object1 : ids, object2 : ids]
        \cup [kind : {"Distance"}, distance : Distances, object1 : ids,
              object2 : ids \cup {NoID}]
        \cup [kind : {"Perpendicular"}, line1 : ids, line2 : ids]

\* Every FixedNode of before is the same object in after.
FixedKept(before, after) ==
    \A i \in DOMAIN before :
       before[i].kind = "FixedNode" => i \in DOMAIN after /\ after[i] = before[i]

\* The solver run over constraints has no variable and no write-back for a
\* FixedNode.
NoFixedVariable(objects, constraints) ==
    LET vt == assembleVariables(objects, constraints)
    IN  /\ \A k \in DOMAIN vt.jacColByVar :
              ~IsKind(objects, vt.jacColByVar[k][1], "FixedNode")
        /\ \A k \in DOMAIN vt.writeResults :
              ~IsKind(objects, vt.writeResults[k].id, "FixedNode")

\* The data executor has just run the AddConstraint of a constraint event
\* (whose only other action is the AddHistory before it).
ConstraintJustAdded ==
    /\ pc = "exec"
    /\ trace # <<>>
    /\ Last(trace).exec = "data"
    /\ Last(trace).kind = "AddConstraint"

\* C12: every FixedNode has the same point before and after every
\* AddConstraint, and the solver holds no variable and no write-back for
\* it: for the AddConstraint that sendEvent has just executed, and for any
\* constraint (over a Line with a FixedNode endpoint, a Coincident or a
\* Distance with a FixedNode operand, ...) the data executor may be given in
\* a state between events.
FixedNodesStay ==
    /\ ConstraintJustAdded =>
          /\ FixedKept(pre.dataState.objects, dataState.objects)
          /\ NoFixedVariable(pre.dataState.objects, dataState.constraints)
    /\ pc = "idle" =>
          \A c \in ConstraintsOver(dataState.objects) :
             \A r \in executeDataAction(dataState, [id |-> NoID, kind |-> "AddConstraint",
                                                    constraint |-> c]) :
                /\ FixedKept(dataState.objects, r.dataState.objects)
                /\ NoFixedVariable(dataState.objects, r.dataState.constraints)

\* A Coincident constraint between a FixedNode and a Node has been executed
\* and the solver has moved the Node.
FixedNodeConstrained ==
    /\ ConstraintJustAdded
    /\ LET c == Last(dataState.constraints)
       IN  /\ c.kind = "Coincident"
           /\ IsKind(dataState.objects, c.object1, "FixedNode")
           /\ IsKind(dataState.objects, c.object2, "Node")
           /\ dataState.objects[c.object2] # pre.dataState.objects[c.object2]

\* after is before with the constraint c appended and nothing else changed
\* but points of Nodes.
DataFrame(before, after, c) ==
    /\ DOMAIN after.objects = DOMAIN before.objects
    /\ \A i \in DOMAIN before.objects :
          IF before.objects[i].kind = "Node"
          THEN [after.objects[i] EXCEPT !.point = before.objects[i].point]
                   = before.objects[i]
          ELSE after.objects[i] = before.objects[i]
    /\ after.constraints = Append(before.constraints, c)

\* C13: executing AddConstraint changes nothing except Node.point values
\* and the one appended constraint: the IDs, every object's kind and
\* references and the earlier constraints are as before, and ToolState is
\* as the tool executor left it (the state at the start of the sendEvent
\* with the action recorded in the history).  This holds for the
\* AddConstraint that sendEvent has just executed and for any constraint the
\* data executor may be given in a state between events, on top of the
\* constraints that are there.
ConstraintFrame ==
    /\ ConstraintJustAdded =>
          /\ DataFrame(pre.dataState, dataState, Last(dataState.constraints))
          /\ Last(toolState.history.nodes).action.constraint
                 = Last(dataState.constraints)
          /\ toolState = [pre.toolState EXCEPT !.history =
                             appendHistory(@, Last(toolState.history.nodes).action)]
    /\ pc = "idle" =>
          \A c \in ConstraintsOver(dataState.objects) :
             \A r \in executeDataAction(dataState, [id |-> NoID, kind |-> "AddConstraint",
                                                    constraint |-> c]) :
                DataFrame(dataState, r.dataState, c)

\* The solver has moved a Node of a map that holds a Line as well, with two
\* objects selected.
SolverMovedNode ==
    /\ ConstraintJustAdded
    /\ Len(toolState.tool.selectedObjects) = 2
    /\ \E i \in DOMAIN dataState.objects : dataState.objects[i].kind = "Line"
    /\ \E i \in DOMAIN dataState.objects :
          /\ dataState.objects[i].kind = "Node"
          /\ dataState.objects[i].point # pre.dataState.objects[i].point

(***************************************************************************)
(* Save, Load and the history.                                             *)
(***************************************************************************)
\* No operation is running, and the last one came to its end: neither a
\* sendEvent nor a Load is under way, and no Load has just been aborted.
AtRest == pc = "idle" /\ load = "idle"

\* C14: at every state between operations (after any sequence of sendEvent
\* calls and Loads that ran to their end), saving the history and replaying
\* the file along children[0] through the data executor into a fresh
\* DataState ends without an exception and gives an object map equal to
\* DataState.objects.
HistoryReplays ==
    AtRest =>
       \A r \in loadWalk(initialDataState, serialiseStates(toolState).history,
                         serialiseStates(toolState).history.root) :
          /\ r.error = "none"
          /\ r.dataState.objects = dataState.objects

\* C15: when the persisted history is malformed the Load is rejected as a
\* whole: once the handler has ended in its exception, DataState is what it
\* was before the Load (no prefix of the persisted actions is applied) and
\* ToolState is the fresh initial tool state.
MalformedLoadRejected ==
    load = "failed" =>
       /\ dataState = pre.dataState
       /\ toolState = initialToolState

(***************************************************************************)
(* DataState over time.                                                    *)
(***************************************************************************)
\* The object after is the object before, up to the point of a Node.
SameButPoint(before, after) ==
    IF before.kind = "Node"
    THEN after.kind = "Node" /\ [after EXCEPT !.point = before.point] = before
    ELSE after = before

IsPrefix(s, t) == Len(s) <= Len(t) /\ SubSeq(t, 1, Len(s)) = s

\* C16: DataState only grows: in every step an ID that keys an object of
\* DataState.objects still keys an object of the same kind with the same
\* references (only the point of a Node may differ), and
\* DataState.constraints is a prefix of what it becomes.
DataStateGrows ==
    [][/\ \A i \in DOMAIN dataState.objects :
             /\ i \in DOMAIN dataState'.objects
             /\ SameButPoint(dataState.objects[i], dataState'.objects[i])
       /\ IsPrefix(dataState.constraints, dataState'.constraints)]_vars

(***************************************************************************)
(* The frame of the tools.                                                 *)
(***************************************************************************)
\* The events that emit no data action: MouseMove, MouseUp, the view events,
\* SetTextValue, the tool switches, any secondary MouseDown, a MouseDown in
\* the Selector or the Pen tool, Enter outside the Pen tool.
EmitsNoDataAction(event, toolState0) ==
    \/ event.kind \in {"MouseMove", "MouseUp", "ResizeView", "SetViewOffset",
                       "SetTextValue", "SelectTextTool"}
    \/ event.kind = "KeyDown" /\ event.key \in {"p", "s"}
    \/ event.kind = "KeyDown" /\ event.key = "Enter" /\ toolState0.tool.kind # "Pen"
    \/ event.kind = "MouseDown" /\ event.button = "Secondary"
    \/ event.kind = "MouseDown" /\ toolState0.tool.kind \in {"Selector", "Pen"}

\* C17: DataState is changed only by data actions: an event of the kinds
\* above gets no data action from generateAction, and every step of
\* sendEvent other than a run of the data executor (generateAction, every
\* tool action, the notification, the return) leaves DataState.objects, with
\* every committed coordinate, and DataState.constraints as they are.
DataActionsOnly ==
    [][/\ (pc = "idle" /\ pc' = "exec" /\ EmitsNoDataAction(inEvent', toolState)) =>
              dataActions' = <<>>
       /\ ~(pc = "exec" /\ dataTurn(toolActions, dataActions)) =>
              dataState' = dataState]_vars

\* The cursor has moved in the Text tool after a Text and its anchor Node
\* were committed: the scratch anchor is at the cursor, the committed Nodes
\* are where they were.
MouseMovedAfterCommit ==
    /\ pc = "done"
    /\ inEvent.kind = "MouseMove"
    /\ toolState.mousePoint # pre.toolState.mousePoint
    /\ toolState.tool.kind = "Text"
    /\ toolState.tool # pre.toolState.tool
    /\ \E i \in DOMAIN dataState.objects : dataState.objects[i].kind = "Text"
    /\ dataState = pre.dataState

\* The event selects the tool that is active in toolState0.
SameToolEvent(event, toolState0) ==
    \/ event.kind = "KeyDown" /\ event.key = "p" /\ toolState0.tool.kind = "Pen"
    \/ event.kind = "KeyDown" /\ event.key = "s" /\ toolState0.tool.kind = "Selector"
    \/ event.kind = "SelectTextTool" /\ toolState0.tool.kind = "Text"

\* C18: selecting the tool that is already active is a no-op: all through
\* the sendEvent, ToolState (the Pen or Text scratch map, the selection and
\* the history with it) and DataState are what they were when it began, the
\* counter of generateID has not moved, no executor has reported a change and
\* no listener has been notified.
SameToolNoOp ==
    (pc \in {"exec", "done"} /\ SameToolEvent(inEvent, pre.toolState)) =>
       /\ toolState = pre.toolState
       /\ dataState = pre.dataState
       /\ id = pre.id
       /\ ~changed
       /\ ~Notified(trace)
       /\ calls = NoCalls

\* 'p' has been handled in the Pen tool with a Node already placed.
PenSelectedAgain ==
    /\ pc = "done"
    /\ inEvent = [kind |-> "KeyDown", key |-> "p"]
    /\ pre.toolState.tool.kind = "Pen"
    /\ pre.toolState.tool.tempObjectMap[pre.toolState.tool.tempObjectID].points # <<>>
    /\ Kinds(trace) = <<"SelectTool">>

(***************************************************************************)
(* Selection and pan.                                                      *)
(***************************************************************************)
\* A sendEvent for a primary MouseDown that began in the Selector tool has
\* run both loops.
SelectorClickDone ==
    /\ pc = "done"
    /\ inEvent.kind = "MouseDown"
    /\ inEvent.button = "Primary"
    /\ pre.toolState.tool.kind = "Selector"

\* C19: a primary MouseDown in the Selector tool changes nothing but the
\* selection, which is a set: with ctrl it loses the hit object, if there is
\* one, and nothing else; without ctrl it gains the hit object and keeps
\* every object it had, and becomes empty when nothing is hit.
SelectorClick ==
    SelectorClickDone =>
       LET before == SeqRange(pre.toolState.tool.selectedObjects)
           after == SeqRange(toolState.tool.selectedObjects)
           hit == hitScan(pre.toolState, pre.dataState, inEvent.point)
       IN  /\ [toolState EXCEPT !.tool.selectedObjects =
                   pre.toolState.tool.selectedObjects] = pre.toolState
           /\ dataState = pre.dataState
           /\ id = pre.id
           /\ Len(toolState.tool.selectedObjects) = Cardinality(after)
           /\ after = CASE inEvent.ctrl -> before \ {hit}
                         [] hit # NoID -> before \cup {hit}
                         [] OTHER -> {}

\* A plain click has added a second object to the selection.
SecondObjectSelected ==
    /\ SelectorClickDone
    /\ ~inEvent.ctrl
    /\ Len(pre.toolState.tool.selectedObjects) = 1
    /\ Len(toolState.tool.selectedObjects) = 2

\* C20: a secondary MouseDown at p from Idle makes pan Panning with start =
\* p + viewBox.offset and leaves the offset; while Panning, after every
\* MouseMove viewBox.offset = pan.start - mousePoint, so that with the cursor
\* back at the point of the press the offset is the one that held at the
\* press; a secondary MouseUp returns pan to Idle and leaves the offset.
PanFollowsCursor ==
    pc = "done" =>
       LET before == pre.toolState
       IN  /\ (inEvent.kind = "MouseDown" /\ inEvent.button = "Secondary"
                   /\ before.pan.kind = "Idle") =>
                  /\ toolState.pan =
                         [kind |-> "Panning",
                          start |-> <<inEvent.point[1] + before.viewBox.offset[1],
                                      inEvent.point[2] + before.viewBox.offset[2]>>]
                  /\ toolState.viewBox = before.viewBox
           /\ (inEvent.kind = "MouseMove" /\ before.pan.kind = "Panning") =>
                  /\ toolState.pan = before.pan
                  /\ toolState.mousePoint = inEvent.point
                  /\ toolState.viewBox.offset =
                         <<toolState.pan.start[1] - toolState.mousePoint[1],
                           toolState.pan.start[2] - toolState.mousePoint[2]>>
                  /\ inEvent.point = press.point =>
                         toolState.viewBox.offset = press.offset
           /\ (inEvent.kind = "MouseUp" /\ inEvent.button = "Secondary"
                   /\ before.pan.kind = "Panning") =>
                  /\ toolState.pan = [kind |-> "Idle"]
                  /\ toolState.viewBox = before.viewBox

\* The cursor has come back to the point of the press from elsewhere and
\* the offset of the press, not the origin, is restored.
PanRestored ==
    /\ pc = "done"
    /\ inEvent.kind = "MouseMove"
    /\ pre.toolState.pan.kind = "Panning"
    /\ inEvent.point = press.point
    /\ pre.toolState.viewBox.offset # press.offset
    /\ press.offset # <<0, 0>>
    /\ toolState.viewBox.offset = press.offset

(***************************************************************************)
(* filterObjectMap.                                                        *)
(***************************************************************************)
\* The object maps of a state: DataState.objects, the scratch map of the
\* active tool, both together (the drawing as it is rendered), and each of
\* these with one of its objects missing.
ObjectMaps ==
    LET temp == IF "tempObjectMap" \in DOMAIN toolState.tool
                THEN toolState.tool.tempObjectMap ELSE EmptyMap
        whole == {dataState.objects, temp, Merge(dataState.objects, temp)}
    IN  whole \cup {[i \in (DOMAIN map) \ {k} |-> map[i]] :
                        <<map, k>> \in {mk \in whole \X (0..MaxID) : mk[2] \in DOMAIN mk[1]}}

\* C21: for every object map and every root Path ID P in it, applying
\* filterObjectMap(map, [P]) twice leaves the same map as applying it once,
\* and the result holds exactly P, P.points and P.lines (those present in
\* the map), each unchanged.
FilterIdempotent ==
    \A map \in ObjectMaps :
        \A P \in OfKind(map, "Path") :
            LET once == filterObjectMap(map, <<P>>)
            IN  /\ filterObjectMap(once, <<P>>) = once
                /\ DOMAIN once =
                      (DOMAIN map) \cap ({P} \cup SeqRange(map[P].points)
                                            \cup SeqRange(map[P].lines))
                /\ \A i \in DOMAIN once : once[i] = map[i]

\* The Pen holds a committing Path of two Nodes and one Line; filtering its
\* scratch map by that Path drops the rubber-band Node, its Line and the live
\* sub-path and keeps the other four objects.
FilterDropsRubberBand ==
    /\ toolState.tool.kind = "Pen"
    /\ IsKind(toolState.tool.tempObjectMap, toolState.tool.tempObjectID, "Path")
    /\ Len(toolState.tool.tempObjectMap[toolState.tool.tempObjectID].points) = 2
    /\ LET once == filterObjectMap(toolState.tool.tempObjectMap,
                                   <<toolState.tool.tempObjectID>>)
       IN  /\ Cardinality(DOMAIN once) = 4
           /\ Cardinality(DOMAIN toolState.tool.tempObjectMap) = 7
           /\ filterObjectMap(once, <<toolState.tool.tempObjectID>>) = once

(***************************************************************************)
(* The Pen click.                                                          *)
(***************************************************************************)
\* The tool executor is about to run the AddNode of a primary MouseDown in
\* the Pen tool.
AddNodeNext ==
    /\ pc = "exec"
    /\ toolActions # <<>>
    /\ Head(toolActions).kind = "AddNode"
    /\ execAddNode(toolState, id, Head(toolActions)).changed

\* C22: on a primary MouseDown at viewport point p in the Pen tool, the Node
\* pinned into the committing Path has the data coordinates of p and the new
\* rubber-band Node is created at the data coordinates of p, whatever events
\* came before (a MouseMove to p or none).
PenClickAtPoint ==
    [][AddNodeNext =>
          LET p == transformViewportToData(toolState, Head(toolActions).point)
              map == toolState'.tool.tempObjectMap
              pinned == Last(map[toolState'.tool.tempObjectID].points)
              next == Last(map[toolState'.tool.nextObjectID].points)
          IN  /\ map[pinned].point = p
              /\ map[next].point = p
      ]_vars

\* The Nodes pinned into the committing Path of the Pen.
PinnedNodes ==
    IF /\ toolState.tool.kind = "Pen"
       /\ IsKind(toolState.tool.tempObjectMap, toolState.tool.tempObjectID, "Path")
    THEN SeqRange(toolState.tool.tempObjectMap[toolState.tool.tempObjectID].points)
    ELSE {}

\* C23: a Node pinned into the committing Path keeps its coordinates through
\* every later step of a MouseMove, MouseDown, pan or view event while the
\* Pen is active, in the map the commit emits, and in DataState.objects when
\* the commit is executed; an UpdateNextNode moves the last Node of the live
\* sub-path to the cursor and no other object.
PinnedNodesStay ==
    [][/\ \A i \in PinnedNodes :
             /\ toolState'.tool.kind = "Pen" =>
                   /\ i \in DOMAIN toolState'.tool.tempObjectMap
                   /\ toolState'.tool.tempObjectMap[i] = toolState.tool.tempObjectMap[i]
             /\ (pc = "idle" /\ dataActions' # <<>>) =>
                   /\ i \in DOMAIN dataActions'[1].map
                   /\ dataActions'[1].map[i] = toolState.tool.tempObjectMap[i]
       /\ (pc = "exec" /\ toolActions = <<>> /\ dataActions # <<>>
              /\ Head(dataActions).kind = "AddObject") =>
             \A i \in DOMAIN Head(dataActions).map :
                 /\ i \in DOMAIN dataState'.objects
                 /\ dataState'.objects[i] = Head(dataActions).map[i]
       /\ (pc = "exec" /\ toolActions # <<>>
              /\ Head(toolActions).kind = "UpdateNextNode"
              /\ toolState.tool.kind = "Pen") =>
             LET map == toolState.tool.tempObjectMap
                 last == Last(map[toolState.tool.nextObjectID].points)
             IN  /\ DOMAIN toolState'.tool.tempObjectMap = DOMAIN map
                 /\ toolState'.tool.tempObjectMap[last].point =
                       transformViewportToData(toolState, Head(toolActions).point)
                 /\ \A i \in (DOMAIN map) \ {last} :
                       toolState'.tool.tempObjectMap[i] = map[i]
      ]_vars

\* A Path with a pinned Node has been committed after the view was panned
\* and the cursor had moved on: the Node is in DataState.objects away from
\* where the cursor was when Enter was pressed.
PinnedNodeCommitted ==
    /\ pc = "done"
    /\ inEvent = EnterEvent
    /\ penClicks >= 1
    /\ toolState.viewBox.offset # <<0, 0>>
    /\ \E P \in OfKind(dataState.objects, "Path") :
          /\ dataState.objects[P].points # <<>>
          /\ \E i \in SeqRange(dataState.objects[P].points) :
                dataState.objects[i].point #
                    transformViewportToData(toolState, toolState.mousePoint)

(***************************************************************************)
(* Mouse buttons.                                                          *)
(***************************************************************************)
\* C24: a MouseDown with the auxiliary button changes no state: it adds no
\* Pen node, changes no selection and commits no Text.
AuxiliaryIgnored ==
    (pc # "idle" /\ inEvent.kind = "MouseDown" /\ inEvent.button = "Auxiliary") =>
        /\ toolState = pre.toolState
        /\ dataState = pre.dataState
        /\ id = pre.id

(***************************************************************************)
(* The operands of a constraint.                                           *)
(***************************************************************************)
\* a comes before b in the sequence s.
Before(s, a, b) == \E i, j \in DOMAIN s : i < j /\ s[i] = a /\ s[j] = b

\* The selection of the Selector tool (empty in the other tools).
Selection(toolState0) ==
    IF toolState0.tool.kind = "Selector" THEN toolState0.tool.selectedObjects ELSE <<>>

\* The operands of a constraint, in their order.
Operands(c) ==
    CASE c.kind = "Perpendicular" -> <<c.line1, c.line2>>
      [] c.kind = "Coincident" -> <<c.object1, c.object2>>
      [] c.kind = "Distance" ->
            IF c.object2 = NoID THEN <<c.object1>> ELSE <<c.object1, c.object2>>
      [] OTHER -> <<c.object>>

\* C25: the selection keeps the order in which its objects were added (an
\* object selected anew goes last, one selected already stays where it is,
\* deselecting removes the object and keeps the order of the others); an
\* accepted constraint event emits exactly one AddConstraint whose operands
\* are the selected IDs in that order (one operand for Distance with one
\* selected object), the data executor appends that one constraint, and the
\* selection is the same after every step of the event.
OperandsInSelectionOrder ==
    [][/\ (pc = "exec" /\ toolActions # <<>> /\ toolState.tool.kind = "Selector"
              /\ Head(toolActions).kind \in {"SelectObject", "DeselectObject"}) =>
             LET o == Head(toolActions).objectID
                 sel == Selection(toolState)
                 sel1 == Selection(toolState')
             IN  /\ Cardinality(SeqRange(sel1)) = Len(sel1)
                 /\ SeqRange(sel1) = IF Head(toolActions).kind = "SelectObject"
                                     THEN SeqRange(sel) \cup {o}
                                     ELSE SeqRange(sel) \ {o}
                 /\ \A a, b \in SeqRange(sel) \cap SeqRange(sel1) :
                       Before(sel1, a, b) <=> Before(sel, a, b)
                 /\ (Head(toolActions).kind = "SelectObject" /\ o \notin SeqRange(sel)) =>
                       \A a \in SeqRange(sel) : Before(sel1, a, o)
       /\ (pc = "idle" /\ inEvent'.kind \in ConstraintEventKinds /\ dataActions' # <<>>) =>
             /\ Kinds(dataActions') = <<"AddConstraint">>
             /\ Operands(dataActions'[1].constraint) = Selection(toolState)
       /\ (pc = "exec" /\ inEvent.kind \in ConstraintEventKinds) =>
             /\ toolState'.tool = toolState.tool
             /\ (toolActions = <<>> /\ dataActions # <<>>) =>
                   /\ dataState'.constraints =
                         Append(dataState.constraints, Head(dataActions).constraint)
                   /\ Operands(Head(dataActions).constraint) = Selection(toolState')
      ]_vars

\* A Coincident constraint has been added whose first operand has the larger
\* ID: the selection is not in the order of the IDs (the object with the
\* larger ID was selected first, or the other one was deselected and selected
\* again), and it is as it was before the event.
OperandsReordered ==
    /\ pc = "done"
    /\ inEvent.kind = "AddCoincidentConstraint"
    /\ dataState.constraints # <<>>
    /\ Last(dataState.constraints).kind = "Coincident"
    /\ Last(dataState.constraints).object1 > Last(dataState.constraints).object2
    /\ Selection(toolState) = <<Last(dataState.constraints).object1,
                                Last(dataState.constraints).object2>>

(***************************************************************************)
(* The Text commit.                                                        *)
(***************************************************************************)
\* map is the scratch map of the Text tool: one Node and one Text anchored
\* at that Node, and nothing else.
TextMap(map) ==
    /\ Cardinality(DOMAIN map) = 2
    /\ Cardinality(OfKind(map, "Node")) = 1
    /\ Cardinality(OfKind(map, "Text")) = 1
    /\ \A t \in OfKind(map, "Text") : map[t].point \in OfKind(map, "Node")

\* The body of the scratch Text of the Text tool.
TextBody(toolState0) ==
    toolState0.tool.tempObjectMap[toolState0.tool.nextObjectID].text

\* C26: in the Text tool the body of the scratch Text is the value of the
\* last SetTextValue (no other event of the tool changes it), and a primary
\* MouseDown commits exactly the scratch Node and the scratch Text to
\* DataState.objects, the Text anchored at that Node, which is a Node of
\* DataState.objects, with the body it had before the click; exactly one
\* AddObject entry is appended to the history and the tool becomes Selector.
TextCommit ==
    /\ (pc = "done" /\ inEvent.kind = "SetTextValue" /\ toolState.tool.kind = "Text") =>
          TextBody(toolState) = inEvent.text
    /\ (/\ pc = "done"
        /\ inEvent.kind \notin {"SetTextValue", "None"}
        /\ toolState.tool.kind = "Text"
        /\ pre.toolState.tool.kind = "Text") =>
          /\ toolState.tool.nextObjectID = pre.toolState.tool.nextObjectID
          /\ TextBody(toolState) = TextBody(pre.toolState)
    /\ (/\ pc = "done"
        /\ inEvent.kind = "MouseDown"
        /\ inEvent.button = "Primary"
        /\ pre.toolState.tool.kind = "Text") =>
          LET map == pre.toolState.tool.tempObjectMap
              before == pre.toolState.history
              after == toolState.history
          IN  /\ TextMap(map)
              /\ (DOMAIN map) \cap (DOMAIN pre.dataState.objects) = {}
              /\ dataState.objects = Merge(pre.dataState.objects, map)
              /\ dataState.constraints = pre.dataState.constraints
              /\ \A t \in OfKind(map, "Text") :
                    /\ IsKind(dataState.objects, dataState.objects[t].point, "Node")
                    /\ dataState.objects[t].text = TextBody(pre.toolState)
              /\ Len(after.nodes) = Len(before.nodes) + 1
              /\ SubSeq(after.nodes, 1, Len(before.nodes)) =
                    [k \in DOMAIN before.nodes |->
                        IF k = before.cur
                        THEN [before.nodes[k] EXCEPT !.children = Append(@, after.cur)]
                        ELSE before.nodes[k]]
              /\ after.cur = Len(after.nodes)
              /\ after.nodes[after.cur].action.kind = "AddObject"
              /\ after.nodes[after.cur].action.map = map
              /\ toolState.tool = [kind |-> "Selector", selectedObjects |-> <<>>]

\* A Text whose body was set to "a" and then to "b" has been committed away
\* from the origin, beside a Text committed before.
TextCommitted ==
    /\ pc = "done"
    /\ inEvent.kind = "MouseDown"
    /\ pre.toolState.tool.kind = "Text"
    /\ TextBody(pre.toolState) = "b"
    /\ Cardinality(OfKind(dataState.objects, "Text")) = 2
    /\ \E t \in OfKind(dataState.objects, "Text") :
          /\ dataState.objects[t].text = "b"
          /\ dataState.objects[dataState.objects[t].point].point # <<0, 0>>
    /\ \E t \in OfKind(dataState.objects, "Text") : dataState.objects[t].text = "a"

(***************************************************************************)
(* The shape of the history.                                               *)
(***************************************************************************)
\* The history is the chain of these actions: node k has node k + 1 as its
\* only child, the last node has none, root is the first and cur the last.
ChainOf(history, actions) ==
    /\ Len(history.nodes) = Len(actions)
    /\ history.root = IF actions = <<>> THEN 0 ELSE 1
    /\ history.cur = Len(actions)
    /\ \A k \in DOMAIN history.nodes :
          /\ history.nodes[k].action = actions[k]
          /\ history.nodes[k].children =
                IF k < Len(actions) THEN <<k + 1>> ELSE <<>>

\* The actions of the nodes of the history, in the order of the nodes.
HistoryActions(history) == [k \in DOMAIN history.nodes |-> history.nodes[k].action]

\* C27: in every state reachable by sendEvent alone the history is a linear
\* chain (root exists iff there is a node, every node but the last has one
\* child, cur is the last node); the chain grows only by the data actions an
\* event emits, one node each in emission order; between events the number
\* of AddConstraint nodes is the length of DataState.constraints.
HistoryIsChain ==
    [][/\ ChainOf(toolState.history, HistoryActions(toolState.history))
       /\ ChainOf(toolState'.history, HistoryActions(toolState'.history))
       /\ pc = "idle" =>
             /\ toolState'.history = toolState.history
             /\ SelectSeq(toolActions', LAMBDA a : a.kind = "AddHistory") =
                   [k \in DOMAIN dataActions' |->
                       [kind |-> "AddHistory", action |-> dataActions'[k]]]
             /\ Cardinality({k \in DOMAIN toolState.history.nodes :
                                toolState.history.nodes[k].action.kind = "AddConstraint"})
                   = Len(dataState.constraints)
       /\ pc # "idle" =>
             IF pc = "exec" /\ toolActions # <<>> /\ Head(toolActions).kind = "AddHistory"
             THEN /\ HistoryActions(toolState'.history) =
                       Append(HistoryActions(toolState.history), Head(toolActions).action)
                  /\ Head(toolActions).action =
                       dataActions[Len(dataActions) - Len(toolActions) + 1]
             ELSE toolState'.history = toolState.history
      ]_vars

\* Between events: the history is a chain of three nodes, the last of them
\* an AddConstraint, and DataState.constraints holds one constraint.
ChainWithConstraint ==
    /\ pc = "idle"
    /\ Len(toolState.history.nodes) = 3
    /\ toolState.history.nodes[1].children = <<2>>
    /\ toolState.history.nodes[2].children = <<3>>
    /\ toolState.history.nodes[3].action.kind = "AddConstraint"
    /\ toolState.history.cur = 3
    /\ Len(dataState.constraints) = 1

(***************************************************************************)
(* The hit scan and hitLineSegment.                                        *)
(***************************************************************************)
\* The Line under this ID joins two point-like objects of the map and the
\* data point lies within tolerance 10 of its segment.
NearLine(objects, l, hitPoint) ==
    /\ IsKind(objects, l, "Line")
    /\ IsPointLike(objects, objects[l].point1)
    /\ IsPointLike(objects, objects[l].point2)
    /\ hitLineSegment(objects[objects[l].point1].point,
                      objects[objects[l].point2].point, 10, hitPoint)

\* C28: a plain primary MouseDown in the Selector tool within tolerance 10
\* of the segment of a Line selects that Line, whether its endpoints are
\* Nodes or FixedNodes, unless an object earlier in the scan is hit.
LineHitWhateverEndpoints ==
    (/\ pc = "done"
     /\ inEvent.kind = "MouseDown"
     /\ inEvent.button = "Primary"
     /\ ~inEvent.ctrl
     /\ pre.toolState.tool.kind = "Selector") =>
        LET objects == pre.dataState.objects
            hitPoint == transformViewportToData(pre.toolState, inEvent.point)
        IN  \A l \in DOMAIN objects :
                (/\ NearLine(objects, l, hitPoint)
                 /\ \A i \in DOMAIN objects :
                       i < l => /\ ~NearLine(objects, i, hitPoint)
                                /\ pointLikeObject(objects[i].kind) =>
                                      ~hitNode(objects[i].point, 15, hitPoint))
                => l \in SeqRange(toolState.tool.selectedObjects)

\* Tolerances hitLineSegment is called with (10 is the one of the hit scan).
HitTols == {1, 10}

\* The Lines of DataState.objects that join two Nodes.
NodeLines ==
    {l \in OfKind(dataState.objects, "Line") :
        /\ IsKind(dataState.objects, dataState.objects[l].point1, "Node")
        /\ IsKind(dataState.objects, dataState.objects[l].point2, "Node")}

LineA(l) == dataState.objects[dataState.objects[l].point1].point

LineB(l) == dataState.objects[dataState.objects[l].point2].point

\* The cursor in data coordinates.
Cursor == transformViewportToData(toolState, toolState.mousePoint)

\* The projection of q onto the line through a and b is t * |ab| from a,
\* where proj = t * |ab|^2; these compare t with -tol and with |ab| + tol
\* and the perpendicular distance of q with tol, in squares.
AfterStart(a, b, tol, q, closed) ==
    LET proj == vecDot(vecSub(q, a), vecSub(b, a))
        normSq == vecDot(vecSub(b, a), vecSub(b, a))
    IN  \/ proj > 0
        \/ IF closed THEN proj * proj <= tol * tol * normSq
                     ELSE proj * proj < tol * tol * normSq

BeforeEnd(a, b, tol, q, closed) ==
    LET proj == vecDot(vecSub(q, a), vecSub(b, a))
        normSq == vecDot(vecSub(b, a), vecSub(b, a))
        over == proj - normSq
    IN  \/ over < 0
        \/ IF closed THEN over * over <= tol * tol * normSq
                     ELSE over * over < tol * tol * normSq

PerpWithin(a, b, tol, q) ==
    LET proj == vecDot(vecSub(q, a), vecSub(b, a))
        normSq == vecDot(vecSub(b, a), vecSub(b, a))
    IN  vecDot(vecSub(q, a), vecSub(q, a)) * normSq - proj * proj <= tol * tol * normSq

\* C29 as claimed: hitLineSegment(a, b, tol, q) is true iff a # b, the
\* projection of q lies within the closed segment extended by tol at both
\* ends (boundary included) and the perpendicular distance of q is at most
\* tol.
HitClosedEnds ==
    \A l \in NodeLines : \A tol \in HitTols :
        hitLineSegment(LineA(l), LineB(l), tol, Cursor) <=>
            /\ LineA(l) # LineB(l)
            /\ AfterStart(LineA(l), LineB(l), tol, Cursor, TRUE)
            /\ BeforeEnd(LineA(l), LineB(l), tol, Cursor, TRUE)
            /\ PerpWithin(LineA(l), LineB(l), tol, Cursor)

\* C29: hitLineSegment(a, b, tol, q) is true iff a # b, the projection of q
\* lies strictly between the two ends of the segment extended by tol (a
\* projection exactly tol beyond an end does not hit) and the perpendicular
\* distance of q is at most tol (exactly tol hits).
HitOpenEnds ==
    \A l \in NodeLines : \A tol \in HitTols :
        hitLineSegment(LineA(l), LineB(l), tol, Cursor) <=>
            /\ LineA(l) # LineB(l)
            /\ AfterStart(LineA(l), LineB(l), tol, Cursor, FALSE)
            /\ BeforeEnd(LineA(l), LineB(l), tol, Cursor, FALSE)
            /\ PerpWithin(LineA(l), LineB(l), tol, Cursor)

\* The cursor projects exactly 10 beyond an end of a Line that is not
\* parallel to an axis, and hitLineSegment with tolerance 10 says no.
CursorOnEndBorder ==
    /\ pc = "idle"
    /\ \E l \in NodeLines :
          /\ LineA(l)[1] # LineB(l)[1]
          /\ LineA(l)[2] # LineB(l)[2]
          /\ AfterStart(LineA(l), LineB(l), 10, Cursor, TRUE)
          /\ BeforeEnd(LineA(l), LineB(l), 10, Cursor, TRUE)
          /\ PerpWithin(LineA(l), LineB(l), 10, Cursor)
          /\ ~hitLineSegment(LineA(l), LineB(l), 10, Cursor)

(***************************************************************************)
(* The loop of the solver.                                                 *)
(***************************************************************************)
\* The data executor is about to run an AddConstraint.
AddConstraintNext ==
    /\ pc = "exec"
    /\ toolActions = <<>>
    /\ dataActions # <<>>
    /\ Head(dataActions).kind = "AddConstraint"

ConstraintRefs(c) ==
    {c[f] : f \in DOMAIN c \cap {"object", "object1", "object2", "line1", "line2"}}

\* l keys a Line of objects between two Nodes that no constraint of the list
\* names.
FreeLine(objects, constraints, l) ==
    /\ IsKind(objects, l, "Line")
    /\ IsKind(objects, objects[l].point1, "Node")
    /\ IsKind(objects, objects[l].point2, "Node")
    /\ \A k \in DOMAIN constraints : l \notin ConstraintRefs(constraints[k])

\* The endpoints of the Line l are level in after and as far to the right as
\* they are in before.
Levelled(before, after, l) ==
    LET p1 == before[l].point1
        p2 == before[l].point2
    IN  /\ after[p1].point[2] = after[p2].point[2]
        /\ after[p1].point[1] = before[p1].point[1]
        /\ after[p2].point[1] = before[p2].point[1]

\* FreeLine, and no constraint of the list names an endpoint of l or a Line
\* that ends in one.
LoneLine(objects, constraints, l) ==
    /\ FreeLine(objects, constraints, l)
    /\ LET ends == {objects[l].point1, objects[l].point2}
           near == ends \cup {m \in DOMAIN objects :
                                 /\ objects[m].kind = "Line"
                                 /\ {objects[m].point1, objects[m].point2} \cap ends # {}}
       IN  \A k \in DOMAIN constraints : ConstraintRefs(constraints[k]) \cap near = {}

\* The statement of C31 as written: after a Horizontal constraint is added
\* to a Line whose two endpoints are Nodes and that no other constraint of
\* the list names, both endpoints have the same y coordinate and the x
\* coordinate of each is what it was before.
HorizontalLevels ==
    /\ (/\ ConstraintJustAdded
        /\ Last(dataState.constraints).kind = "Horizontal"
        /\ FreeLine(pre.dataState.objects, pre.dataState.constraints,
                    Last(dataState.constraints).object)) =>
          Levelled(pre.dataState.objects, dataState.objects,
                   Last(dataState.constraints).object)
    /\ pc = "idle" =>
          \A l \in DOMAIN dataState.objects :
             FreeLine(dataState.objects, dataState.constraints, l) =>
                \A r \in executeDataAction(dataState,
                                            [id |-> NoID, kind |-> "AddConstraint",
                                             constraint |-> [kind |-> "Horizontal",
                                                             object |-> l]]) :
                   /\ r.error = "none"
                   /\ Levelled(dataState.objects, r.dataState.objects, l)

\* C31: after a Horizontal constraint is added to a Line whose two endpoints
\* are Nodes, where no other constraint of the list names the Line, one of
\* its endpoints or another Line that ends in one of them, both endpoints
\* have the same y coordinate and the x coordinate of each is what it was
\* before: for the AddConstraint that sendEvent has just executed, and for
\* the Horizontal constraint of any such Line the data executor may be given
\* in a state between events.
HorizontalLevelsAlone ==
    /\ (/\ ConstraintJustAdded
        /\ Last(dataState.constraints).kind = "Horizontal"
        /\ LoneLine(pre.dataState.objects, pre.dataState.constraints,
                    Last(dataState.constraints).object)) =>
          Levelled(pre.dataState.objects, dataState.objects,
                   Last(dataState.constraints).object)
    /\ pc = "idle" =>
          \A l \in DOMAIN dataState.objects :
             LoneLine(dataState.objects, dataState.constraints, l) =>
                \A r \in executeDataAction(dataState,
                                            [id |-> NoID, kind |-> "AddConstraint",
                                             constraint |-> [kind |-> "Horizontal",
                                                             object |-> l]]) :
                   /\ r.error = "none"
                   /\ Levelled(dataState.objects, r.dataState.objects, l)

\* A Horizontal constraint has been executed on a sloping Line between two
\* Nodes, and the solver has moved both of them.
SlopingLineLevelled ==
    /\ ConstraintJustAdded
    /\ Last(dataState.constraints).kind = "Horizontal"
    /\ LET l == Last(dataState.constraints).object
           before == pre.dataState.objects
       IN  /\ LoneLine(before, pre.dataState.constraints, l)
           /\ before[before[l].point1].point[2] # before[before[l].point2].point[2]
           /\ dataState.objects[before[l].point1].point[2] # before[before[l].point1].point[2]
           /\ dataState.objects[before[l].point2].point[2] # before[before[l].point2].point[2]

(***************************************************************************)
(* The coordinates a solver run may change.                                *)
(***************************************************************************)
\* The constraint c names the object i, or a Line of objects that ends in i.
RefersTo(objects, c, i) ==
    \/ i \in ConstraintRefs(c)
    \/ \E m \in ConstraintRefs(c) :
          IsKind(objects, m, "Line") /\ i \in {objects[m].point1, objects[m].point2}

\* Some recognised constraint of the list refers to i and takes the axis
\* index of its points as a variable: Horizontal the y axis (1) only,
\* Vertical the x axis (0) only, every other constraint both.
AxisRegistered(objects, constraints, i, index) ==
    \E k \in DOMAIN constraints :
       /\ recognised(objects, constraints[k])
       /\ RefersTo(objects, constraints[k], i)
       /\ constraints[k].kind = "Horizontal" => index = 1
       /\ constraints[k].kind = "Vertical" => index = 0

\* Every coordinate of a Node of before that the list does not register is
\* the same in after.
UnregisteredKept(before, after, constraints) ==
    \A i \in DOMAIN before :
       before[i].kind = "Node" =>
          \A index \in {0, 1} :
             ~AxisRegistered(before, constraints, i, index) =>
                 after[i].point[index + 1] = before[i].point[index + 1]

\* C32: an AddConstraint changes only coordinates that are solver
\* variables: a Node that no recognised constraint of the list refers to
\* (directly or as endpoint of a Line it names) keeps both coordinates, and
\* an axis of a Node that no constraint registers (x under Horizontal, y
\* under Vertical) keeps its value: for the AddConstraint that sendEvent has
\* just executed, and for any constraint the data executor may be given next
\* on top of the constraints that are there, when a sendEvent that changed
\* DataState ends (an AddConstraint, or an AddObject with nothing selected).
OnlyVariablesChange ==
    /\ ConstraintJustAdded =>
          UnregisteredKept(pre.dataState.objects, dataState.objects,
                           dataState.constraints)
    /\ (/\ pc = "done"
        /\ dataState # pre.dataState
        /\ inEvent.kind = "AddObject" => toolState.tool.selectedObjects = <<>>) =>
          \A c \in ConstraintsOver(dataState.objects) :
             \A r \in executeDataAction(dataState, [id |-> NoID, kind |-> "AddConstraint",
                                                    constraint |-> c]) :
                UnregisteredKept(dataState.objects, r.dataState.objects,
                                 r.dataState.constraints)

\* A Horizontal or a Vertical constraint has been executed and the solver
\* has moved an endpoint of its Line along the one axis and left it where it
\* was along the other, which the list does not register.
OneAxisMoved ==
    /\ ConstraintJustAdded
    /\ Last(dataState.constraints).kind \in {"Horizontal", "Vertical"}
    /\ \E i \in DOMAIN pre.dataState.objects : \E index \in {0, 1} :
          /\ pre.dataState.objects[i].kind = "Node"
          /\ RefersTo(pre.dataState.objects, Last(dataState.constraints), i)
          /\ ~AxisRegistered(pre.dataState.objects, dataState.constraints, i, index)
          /\ dataState.objects[i].point[index + 1]
                 = pre.dataState.objects[i].point[index + 1]
          /\ dataState.objects[i].point[2 - index]
                 # pre.dataState.objects[i].point[2 - index]

(***************************************************************************)
(* The pan and the tool.                                                   *)
(***************************************************************************)
\* The number of objects of the scratch map of a tool (0 for the Selector,
\* which has none).
ScratchSize(tool) ==
    IF "tempObjectMap" \in DOMAIN tool THEN Cardinality(DOMAIN tool.tempObjectMap) ELSE 0

\* The selection of a tool (empty for the tools that have none).
SelectedBy(tool) ==
    IF "selectedObjects" \in DOMAIN tool THEN tool.selectedObjects ELSE <<>>

\* The tool executor is about to run the tool action of one of these kinds.
AboutToRun(kinds) ==
    pc = "exec" /\ toolActions # <<>> /\ Head(toolActions).kind \in kinds

\* A sendEvent with a secondary MouseDown has run its actions.
SecondaryPressDone ==
    /\ pc = "done"
    /\ inEvent.kind = "MouseDown"
    /\ inEvent.button = "Secondary"

\* C33: the pan is independent of the tool.  Running StartPan, UpdatePan or
\* StopPan changes neither the tool kind, the selection, the number of
\* objects of the scratch map, the history nor DataState; a sendEvent with a
\* secondary MouseDown leaves the tool (no Pen node, no change of the
\* selection, no Text committed), the history, the counter of generateID and
\* DataState as they were, and the pan as it was if it was Panning; running
\* SelectTool changes neither the pan nor the view box.
PanIndependent ==
    [][/\ AboutToRun({"StartPan", "UpdatePan", "StopPan"}) =>
             /\ toolState'.tool.kind = toolState.tool.kind
             /\ SelectedBy(toolState'.tool) = SelectedBy(toolState.tool)
             /\ ScratchSize(toolState'.tool) = ScratchSize(toolState.tool)
             /\ toolState'.history = toolState.history
             /\ dataState' = dataState
       /\ SecondaryPressDone' =>
             /\ toolState'.tool = pre'.toolState.tool
             /\ toolState'.history = pre'.toolState.history
             /\ id' = pre'.id
             /\ dataState' = pre'.dataState
             /\ pre'.toolState.pan.kind = "Panning" =>
                    toolState'.pan = pre'.toolState.pan
       /\ AboutToRun({"SelectTool"}) =>
             /\ toolState'.pan = toolState.pan
             /\ toolState'.viewBox = toolState.viewBox]_vars

\* The secondary button has been pressed again in the Pen tool while a pan
\* that has moved the view was in progress.
PressedAgainWhilePanning ==
    /\ SecondaryPressDone
    /\ pre.toolState.pan.kind = "Panning"
    /\ toolState.tool.kind = "Pen"
    /\ press # NoPress
    /\ toolState.viewBox.offset # press.offset

(***************************************************************************)
(* The entries of the history.                                             *)
(***************************************************************************)
\* C34: once a node has been appended to the history its recorded action
\* never changes: no step of any later sendEvent, the write-back of a
\* solver run that moves the Nodes of an earlier AddObject entry included,
\* alters the action of an entry that is there (coordinates, kinds,
\* references and IDs are as they were copied when it was appended).
HistoryEntriesKept ==
    [][\A k \in DOMAIN toolState.history.nodes :
          /\ k \in DOMAIN toolState'.history.nodes
          /\ toolState'.history.nodes[k].action = toolState.history.nodes[k].action]_vars

\* The solver has just moved a Node away from the point that the AddObject
\* entry of the history holds for it.
EntryOlderThanPoint ==
    /\ ConstraintJustAdded
    /\ \E k \in DOMAIN toolState.history.nodes :
          LET action == toolState.history.nodes[k].action
          IN  /\ action.kind = "AddObject"
              /\ \E i \in DOMAIN action.map :
                    /\ action.map[i].kind = "Node"
                    /\ i \in DOMAIN dataState.objects
                    /\ pre.dataState.objects[i].point = action.map[i].point
                    /\ dataState.objects[i].point # action.map[i].point

(***************************************************************************)
(* The selection.                                                          *)
(***************************************************************************)
\* A sendEvent with a MouseDown has run its actions.
MouseDownDone ==
    /\ pc = "done"
    /\ inEvent.kind = "MouseDown"

\* C35: in every state whose tool is the Selector every selected ID keys an
\* object of DataState.objects of kind Node, FixedNode or Line; whenever
\* a step leads into the Selector tool from another tool the selection is
\* empty (SelectTool for the Selector while it is the tool does nothing,
\* the selection stays); and the selection at the end of a sendEvent with a MouseDown has at most one ID that was
\* not in it at the start.
SelectionOfObjects ==
    [][/\ toolState'.tool.kind = "Selector" =>
             \A i \in SeqRange(toolState'.tool.selectedObjects) :
                /\ i \in DOMAIN dataState'.objects
                /\ dataState'.objects[i].kind \in {"Node", "FixedNode", "Line"}
       /\ (toolState.tool.kind # "Selector" /\ toolState'.tool.kind = "Selector") =>
             toolState'.tool.selectedObjects = <<>>
       /\ MouseDownDone' =>
             Cardinality(SeqRange(SelectedBy(toolState'.tool))
                            \ SeqRange(SelectedBy(pre'.toolState.tool))) <= 1
      ]_vars

\* A click has added a Line to a selection that held a Node, while
\* DataState.objects holds a Text or a Path as well.
LineChosenAmongAllKinds ==
    /\ MouseDownDone
    /\ toolState.tool.kind = "Selector"
    /\ pre.toolState.tool.kind = "Selector"
    /\ \E i \in SeqRange(pre.toolState.tool.selectedObjects) :
          dataState.objects[i].kind = "Node"
    /\ \E i \in SeqRange(toolState.tool.selectedObjects)
                 \ SeqRange(pre.toolState.tool.selectedObjects) :
          dataState.objects[i].kind = "Line"
    /\ \E i \in DOMAIN dataState.objects : dataState.objects[i].kind \in {"Text", "Path"}

(***************************************************************************)
(* The two paths of the Pen.                                               *)
(***************************************************************************)
\* s without its last element.
Front(s) == SubSeq(s, 1, Len(s) - 1)

\* The two paths of a Pen tool: the live sub-path has one line less than
\* points; the points and the lines of the committing Path are those of the
\* live sub-path without the last one (once there is a line); every ID of
\* either path keys an object of the scratch map, a Node for a point and a
\* Line for a line; line i of the live sub-path joins its points i and
\* i + 1.
PenShape(tool) ==
    LET map == tool.tempObjectMap
    IN  /\ IsKind(map, tool.nextObjectID, "Path")
        /\ IsKind(map, tool.tempObjectID, "Path")
        /\ LET live == map[tool.nextObjectID]
               committing == map[tool.tempObjectID]
           IN  /\ Len(live.lines) = Len(live.points) - 1
               /\ Len(live.lines) >= 1 =>
                      /\ committing.points = Front(live.points)
                      /\ committing.lines = Front(live.lines)
               /\ \A i \in SeqRange(live.points) \cup SeqRange(committing.points) :
                      IsKind(map, i, "Node")
               /\ \A i \in SeqRange(live.lines) \cup SeqRange(committing.lines) :
                      IsKind(map, i, "Line")
               /\ \A i \in DOMAIN live.lines :
                      /\ map[live.lines[i]].point1 = live.points[i]
                      /\ map[live.lines[i]].point2 = live.points[i + 1]

\* The points of the live sub-path of a Pen tool.
LivePoints(tool) == tool.tempObjectMap[tool.nextObjectID].points

HitsAt(toolState0, dataState0, p) ==
    {i \in DOMAIN dataState0.objects :
        hitObject(dataState0.objects, dataState0.objects[i],
                  transformViewportToData(toolState0, p))}

\* The endpoints of Line l that lie within radius 15 of a click at p.
EndpointsAt(toolState0, dataState0, l, p) ==
    {e \in {dataState0.objects[l].point1, dataState0.objects[l].point2} :
        /\ IsKind(dataState0.objects, e, "Node")
        /\ hitNode(dataState0.objects[e].point, 15,
                   transformViewportToData(toolState0, p))}

\* C37: every Line the Pen has committed has a larger ID than both of its
\* endpoints; a primary click in the Selector that hits objects selects
\* (with ctrl: deselects) the hit object with the smallest ID and no other;
\* so a click within radius 15 of an endpoint of a Line chooses an object
\* with a smaller ID than the Line, never the Line: the endpoint Node
\* itself unless an object with a still smaller ID is hit.
SmallestHitChosen ==
    /\ \A l \in DOMAIN dataState.objects :
          dataState.objects[l].kind = "Line" =>
             /\ dataState.objects[l].point1 < l
             /\ dataState.objects[l].point2 < l
    /\ SelectorClickDone =>
          LET before == SeqRange(pre.toolState.tool.selectedObjects)
              after == SeqRange(toolState.tool.selectedObjects)
              hits == HitsAt(pre.toolState, pre.dataState, inEvent.point)
              lines == OfKind(pre.dataState.objects, "Line")
          IN  /\ hits # {} =>
                    \E m \in hits :
                       /\ \A j \in hits : m <= j
                       /\ after = IF inEvent.ctrl THEN before \ {m} ELSE before \cup {m}
                       /\ \A l \in lines :
                             \A e \in EndpointsAt(pre.toolState, pre.dataState, l,
                                                  inEvent.point) :
                                /\ m <= e
                                /\ m # l
                                /\ (\A j \in hits : j >= e) => m = e
              /\ \A l \in lines :
                    EndpointsAt(pre.toolState, pre.dataState, l, inEvent.point) # {} =>
                       /\ l \notin before => l \notin after
                       /\ l \in before => l \in after

\* A plain click at an endpoint of a committed Line, where the Line is hit
\* as well, has selected the endpoint Node and left the Line unselected.
EndpointChosenNotLine ==
    /\ SelectorClickDone
    /\ ~inEvent.ctrl
    /\ \E l \in OfKind(pre.dataState.objects, "Line") :
          /\ l \in HitsAt(pre.toolState, pre.dataState, inEvent.point)
          /\ l \notin SeqRange(toolState.tool.selectedObjects)
          /\ pre.dataState.objects[pre.dataState.objects[l].point1].point
                # pre.dataState.objects[pre.dataState.objects[l].point2].point
          /\ \E e \in EndpointsAt(pre.toolState, pre.dataState, l, inEvent.point) :
                /\ e \notin SeqRange(pre.toolState.tool.selectedObjects)
                /\ e \in SeqRange(toolState.tool.selectedObjects)

\* A ctrl click at an endpoint of a committed Line, both selected, has
\* deselected the endpoint Node and left the Line selected.
EndpointDeselectedNotLine ==
    /\ SelectorClickDone
    /\ inEvent.ctrl
    /\ \E l \in OfKind(pre.dataState.objects, "Line") :
          /\ l \in HitsAt(pre.toolState, pre.dataState, inEvent.point)
          /\ l \in SeqRange(pre.toolState.tool.selectedObjects)
          /\ l \in SeqRange(toolState.tool.selectedObjects)
          /\ \E e \in EndpointsAt(pre.toolState, pre.dataState, l, inEvent.point) :
                /\ e \in SeqRange(pre.toolState.tool.selectedObjects)
                /\ e \notin SeqRange(toolState.tool.selectedObjects)

(***************************************************************************)
(* Residuals and Jacobian rows.                                            *)
(***************************************************************************)
\* Constraints of every kind over the IDs of objects, the kinds the solver
\* has no rows for included.
AnyConstraintsOver(objects) ==
    ConstraintsOver(objects)
    \cup [kind : {"Parallel"}, line1 : DOMAIN objects, line2 : DOMAIN objects]
    \cup [kind : {"Tangent"}, object : DOMAIN objects]

\* The number of residuals, and of rows, that a constraint is to contribute.
RowsOf(objects, c) ==
    IF ~recognised(objects, c) THEN 0
    ELSE CASE c.kind \in {"Perpendicular", "Distance", "Horizontal", "Vertical"} -> 1
           [] c.kind = "Coincident" ->
                 IF IsPointLike(objects, c.object1) /\ IsPointLike(objects, c.object2)
                 THEN 2 ELSE 1
           [] OTHER -> 0

RECURSIVE SumRows(_, _)
SumRows(objects, constraints) ==
    IF constraints = <<>> THEN 0
    ELSE RowsOf(objects, Head(constraints)) + SumRows(objects, Tail(constraints))

\* The solver builds as many rows as residuals for this list, RowsOf for
\* each constraint of it.
RowsMatch(objects, constraints) ==
    LET vt == assembleVariables(objects, constraints)
        F == consFns(objects, constraints, vt, vt.x)
        fns == jacFns(objects, constraints, vt, vt.x)
        J == evalJ(objects, constraints, vt, vt.x)
    IN  /\ Len(fns) = Len(F)
        /\ DOMAIN J = DOMAIN F
        /\ Len(F) = SumRows(objects, constraints)

\* C38: the solver builds as many Jacobian rows as residuals: a recognised
\* Perpendicular, Distance, Horizontal, Vertical or point-on-line
\* Coincident contributes one residual and one row, a point-point
\* Coincident two of each, a Parallel, a constraint of an unknown kind or
\* one that is not recognised none; for the list of every AddConstraint
\* that is executed and, whenever a sendEvent has changed DataState, for
\* every constraint over its objects, alone and appended to the list that
\* is there.
RowsAsResiduals ==
    /\ ConstraintJustAdded =>
          RowsMatch(pre.dataState.objects, dataState.constraints)
    /\ (pc = "done" /\ dataState # pre.dataState) =>
          \A c \in AnyConstraintsOver(dataState.objects) :
             /\ RowsMatch(dataState.objects, <<c>>)
             /\ dataState.constraints # <<>> =>
                   RowsMatch(dataState.objects, Append(dataState.constraints, c))

\* A point-point Coincident has been executed: two residuals and two rows
\* of one constraint.
TwoRowsBuilt ==
    /\ ConstraintJustAdded
    /\ Last(dataState.constraints).kind = "Coincident"
    /\ RowsOf(pre.dataState.objects, Last(dataState.constraints)) = 2
    /\ LET vt == assembleVariables(pre.dataState.objects, dataState.constraints)
       IN  Len(jacFns(pre.dataState.objects, dataState.constraints, vt, vt.x))
              = 2 * Len(dataState.constraints)

(***************************************************************************)
(* The variables of the solver.                                            *)
(***************************************************************************)
RECURSIVE FirstsOf(_, _)
\* s without the elements that are in seen or come a second time.
FirstsOf(s, seen) ==
    IF s = <<>> THEN <<>>
    ELSE IF Head(s) \in seen THEN FirstsOf(Tail(s), seen)
    ELSE <<Head(s)>> \o FirstsOf(Tail(s), seen \cup {Head(s)})

\* The (Node ID, axis) pairs the recognised constraints of the list pass to
\* addVariable, each once, in the order of their first encounter.
NodePairs(objects, constraints) ==
    LET added == FlatCalls(objects, constraints, "add")
    IN  FirstsOf(SelectSeq(added, LAMBDA c : IsKind(objects, c[1], "Node")), {})

\* The variable table of the list: every pair of NodePairs has exactly one
\* column, the i-th of them column i - 1, and these are all the columns;
\* adding a pair again changes nothing; x has one entry for each pair, at
\* the index that is its column, read from the coordinate of the pair, and
\* the write-back of the entry goes to that coordinate.
Assembled(objects, constraints) ==
    LET vt == assembleVariables(objects, constraints)
        pairs == NodePairs(objects, constraints)
    IN  /\ \A i \in DOMAIN pairs :
              /\ Cardinality({c \in DOMAIN vt.jacColByVar :
                                 vt.jacColByVar[c] = mapKey(pairs[i][1], pairs[i][2])}) = 1
              /\ getVariable(objects, vt, vt.x, pairs[i][1], pairs[i][2]).col = i - 1
              /\ addVariable(objects, vt, pairs[i][1], pairs[i][2]) = vt
        /\ Len(vt.jacColByVar) = Len(pairs)
        /\ Len(vt.x) = Len(pairs)
        /\ Len(vt.writeResults) = Len(pairs)
        /\ \A i \in DOMAIN pairs :
              /\ getVariable(objects, vt, vt.x, pairs[i][1], pairs[i][2]).val
                    = objects[pairs[i][1]].point[pairs[i][2] + 1]
              /\ \E k \in DOMAIN vt.writeResults :
                    vt.writeResults[k] = [id |-> pairs[i][1], index |-> pairs[i][2],
                                          xi |-> i - 1]

\* C39: after the variables of the constraint list of DataState are
\* assembled over its objects, each distinct (Node ID, axis) pair that a
\* recognised constraint references has exactly one column, the columns
\* are 0..n-1 in the order of first encounter, adding a pair a second time
\* changes nothing, and the column of every variable is its index in x, so
\* that the write-back copies each value to the coordinate it was read
\* from.
ColumnsAreIndices ==
    Assembled(dataState.objects, dataState.constraints)

====
